---- MODULE Spec2Model ----
(***************************************************************************)
(* A model of the flexer core of enso: alphabet segmentation, the pattern  *)
(* algebra, the Thompson-style NFA construction, the NFA -> DFA subset     *)
(* construction and the group registry that drives them.                   *)
(*                                                                         *)
(* Identifiers are 0-based as in the source; a vector v of the source is a *)
(* sequence here, so the source's v[i] is v[i+1].  An Option is a sequence *)
(* of length 0 (None) or 1 (Some).                                         *)
(***************************************************************************)
EXTENDS Integers, Sequences, FiniteSets, TLC

\* --------------------------------------------------------------- bounds
\* Width of a symbol in bits.  The source uses u32; the model keeps the
\* arithmetic modulo 2^SymbolBits with a narrower symbol.
SymbolBits == 8
\* Longest input word walked through a compiled DFA.
MaxWord == 3
\* Most rules a compiled registry holds when they come from PatternPool,
\* and when they all come from SmallPool.
MaxRules == 1
MaxSmallRules == 3
\* Most groups a compiled registry holds.
MaxGroups == 1
\* Most groups a registry of the registry specification holds.
MaxRegGroups == 3
\* Most rules a registry of the registry specification holds.
MaxRegRules == 2
\* Most states and epsilon links of a hand-built NFA.
MaxStates == 3
MaxEps == 4
\* Most nodes of a pattern built with the operators | and >>.
MaxNodes == 5
\* Most insert calls on a segmentation, and the longest list handed to
\* from_divisions.
MaxInserts == 3
MaxDivisions == 2
MaxCodes == 3
MaxLinks == 2
MaxVia == 2
MaxConvStates == 3
MaxConvLinks == 3
MaxCodeStates == 3
MaxSources == 2
MaxPatterns == 2

\* ------------------------------------------------------------- symbols
SymbolModulus == 2 ^ SymbolBits
NULL == 0
EOF_CODE == SymbolModulus - 1
\* state::Identifier::INVALID is usize::max_value(): larger than every index.
INVALID == 2147483647

\* strict(v, e) is e.  TLC computes an operator's argument when it is first
\* used; computing v here keeps a loop's carried value from piling up
\* unevaluated across iterations.
strict(v, e) == IF v = v THEN e ELSE e

None == << >>
Some(x) == << x >>
is_some(o) == Len(o) = 1
unwrap(o) == o[1]

\* ------------------------------------------------------------ patterns
Range(lo, hi) == [tag |-> "Range", lo |-> lo, hi |-> hi, elems |-> << >>]
Or(ps) == [tag |-> "Or", lo |-> 0, hi |-> 0, elems |-> ps]
Seq_(ps) == [tag |-> "Seq", lo |-> 0, hi |-> 0, elems |-> ps]
Many(p) == [tag |-> "Many", lo |-> 0, hi |-> 0, elems |-> << p >>]
Always == [tag |-> "Always", lo |-> 0, hi |-> 0, elems |-> << >>]
Never == [tag |-> "Never", lo |-> 0, hi |-> 0, elems |-> << >>]

\* rhs.push(lhs) where the source has rhs.insert(0,lhs).
bitor_pushing(lhs, rhs) ==
    CASE lhs.tag = "Or" /\ rhs.tag = "Or" -> Or(lhs.elems \o rhs.elems)
      [] lhs.tag = "Or" /\ rhs.tag # "Or" -> Or(Append(lhs.elems, rhs))
      [] lhs.tag # "Or" /\ rhs.tag = "Or" -> Or(Append(rhs.elems, lhs))
      [] OTHER -> Or(<< lhs, rhs >>)

\* impl BitOr<Pattern> for Pattern: lhs | rhs
bitor(lhs, rhs) ==
    CASE lhs.tag = "Or" /\ rhs.tag = "Or" -> Or(lhs.elems \o rhs.elems)
      [] lhs.tag = "Or" /\ rhs.tag # "Or" -> Or(Append(lhs.elems, rhs))
      [] lhs.tag # "Or" /\ rhs.tag = "Or" -> Or(<< lhs >> \o rhs.elems)
      [] OTHER -> Or(<< lhs, rhs >>)

\* impl Shr<Pattern> for Pattern: lhs >> rhs
shr(lhs, rhs) ==
    CASE lhs.tag = "Seq" /\ rhs.tag = "Seq" -> Seq_(lhs.elems \o rhs.elems)
      [] lhs.tag = "Seq" /\ rhs.tag # "Seq" -> Seq_(Append(lhs.elems, rhs))
      [] lhs.tag # "Seq" /\ rhs.tag = "Seq" -> Seq_(<< lhs >> \o rhs.elems)
      [] OTHER -> Seq_(<< lhs, rhs >>)

symbol(s) == Range(s, s)

\* many1 that also takes no repetition at all.
many1_as_many(p) == Many(p)

\* Pattern::many1
many1(p) == shr(p, Many(p))
any == Range(0, EOF_CODE)
eof == symbol(EOF_CODE)

\* --------------------------------------------------------- segmentation
\* Segmentation::default(): the division set holds the symbol 0.
Segmentation_default == {0}

\* A faulty insert: the division after the range's end is left out.
insert_without_end(divisions, lo, hi) == divisions \cup {lo}

\* The sum computed without the comparison with EOF_CODE.
end_division_unguarded(hi) == Some(hi + 1)

\* The value of range.end().value + 1 when insert computes it, before it is
\* stored in a symbol; None when the comparison with EOF_CODE skips it.
end_division(hi) == IF hi # EOF_CODE THEN Some(hi + 1) ELSE None

\* Segmentation::insert(range)
insert(divisions, lo, hi) ==
    (divisions \cup {lo})
        \cup (IF is_some(end_division(hi))
              THEN {unwrap(end_division(hi)) % SymbolModulus}
              ELSE {})

\* Segmentation::from_divisions(list)
RECURSIVE from_divisions_loop(_, _, _)
from_divisions_loop(dict, divisions, i) ==
    IF i > Len(divisions) THEN dict
    ELSE from_divisions_loop(dict \cup {divisions[i]}, divisions, i + 1)

\* from_divisions starting from an empty set instead of Self::default().
from_divisions_without_default(divisions) ==
    from_divisions_loop({}, divisions, 1)

from_divisions(divisions) ==
    from_divisions_loop(Segmentation_default, divisions, 1)

\* Iteration of a BTreeSet: ascending order.
RECURSIVE btree_iter(_)
btree_iter(S) ==
    IF S = {} THEN << >>
    ELSE LET m == CHOOSE x \in S : \A y \in S : x <= y
         IN << m >> \o btree_iter(S \ {m})

\* Segmentation::divisions_as_vec(): (position, symbol) pairs.
divisions_as_vec(divisions) ==
    LET v == btree_iter(divisions)
    IN [i \in 1..Len(v) |-> [position |-> i - 1, symbol |-> v[i]]]

\* Segmentation::len()
len(divisions) == Cardinality(divisions)

\* ----------------------------------------------------------------- NFA
State_default == [epsilon_links |-> << >>, links |-> << >>, name |-> None]

NFA_default == [alphabet_segmentation |-> Segmentation_default, states |-> << >>]

\* Link::new and impl From<Vec<Link>> for State: a state with these links.
Link_new(lo, hi, target_id) == [range |-> << lo, hi >>, target_id |-> target_id]

State_from(vec) ==
    [State_default EXCEPT !.links =
        [i \in 1..Len(vec) |-> [start |-> vec[i].range[1], end |-> vec[i].range[2],
                                target_state |-> vec[i].target_id]]]

\* NFA::new_state: the new state's id is the old number of states.
new_state(nfa) ==
    [nfa |-> [nfa EXCEPT !.states = Append(@, State_default)],
     id |-> Len(nfa.states)]

\* The epsilon link made from target to source.
connect_reversed(nfa, source, target) ==
    [nfa EXCEPT !.states[target + 1].epsilon_links = Append(@, source)]

\* The epsilon link put before the links the source already has.
connect_prepending(nfa, source, target) ==
    [nfa EXCEPT !.states[source + 1].epsilon_links = << target >> \o @]

\* NFA::connect
connect(nfa, source, target) ==
    [nfa EXCEPT !.states[source + 1].epsilon_links = Append(@, target)]

\* connect_via that leaves the segmentation as it is.
connect_via_without_insert(nfa, source, target_state, lo, hi) ==
    [nfa EXCEPT
        !.states[source + 1].links =
            Append(@, [start |-> lo, end |-> hi, target_state |-> target_state])]

\* NFA::connect_via
connect_via(nfa, source, target_state, lo, hi) ==
    [nfa EXCEPT
        !.alphabet_segmentation = insert(@, lo, hi),
        !.states[source + 1].links =
            Append(@, [start |-> lo, end |-> hi, target_state |-> target_state])]

\* NFA::new_pattern, with its folds over the elements of Seq and Or.
RECURSIVE new_pattern(_, _, _), seq_fold(_, _, _, _), or_map(_, _, _, _, _)
RECURSIVE connect_all(_, _, _, _)

connect_all(nfa, states, end, i) ==
    IF i > Len(states) THEN nfa
    ELSE connect_all(connect(nfa, states[i], end), states, end, i + 1)

\* The fold that starts every element of the Seq at the same state.
seq_fold_from_start(nfa, s, patterns, i) ==
    IF i > Len(patterns) THEN [nfa |-> nfa, id |-> s]
    ELSE LET r == new_pattern(nfa, s, patterns[i])
         IN strict(r.id, IF i = Len(patterns)
                         THEN [nfa |-> r.nfa, id |-> r.id]
                         ELSE seq_fold(r.nfa, s, patterns, i + 1))

seq_fold(nfa, s, patterns, i) ==
    IF i > Len(patterns) THEN [nfa |-> nfa, id |-> s]
    ELSE LET r == new_pattern(nfa, s, patterns[i])
         IN strict(r.id, seq_fold(r.nfa, r.id, patterns, i + 1))

\* The map that leaves out the first element of the Or.
or_map_from_second(nfa, current, patterns, i, states) ==
    IF i > Len(patterns) THEN [nfa |-> nfa, states |-> states]
    ELSE IF i = 1 THEN or_map(nfa, current, patterns, 2, states)
    ELSE LET r == new_pattern(nfa, current, patterns[i])
         IN strict(r.id, or_map(r.nfa, current, patterns, i + 1, Append(states, r.id)))

or_map(nfa, current, patterns, i, states) ==
    IF i > Len(patterns) THEN [nfa |-> nfa, states |-> states]
    ELSE LET r == new_pattern(nfa, current, patterns[i])
         IN strict(r.id, or_map(r.nfa, current, patterns, i + 1, Append(states, r.id)))

\* new_pattern with an epsilon link from current to the state made for Never.
new_pattern_never_linked(nfa0, source, pattern) ==
    LET c == new_state(nfa0)
        current == c.id
        nfa == connect(c.nfa, source, current)
    IN CASE pattern.tag = "Range" ->
              LET s == new_state(nfa)
              IN [nfa |-> connect_via(s.nfa, current, s.id, pattern.lo, pattern.hi),
                  id |-> s.id]
         [] pattern.tag = "Many" ->
              LET n1 == new_state(nfa)
                  s1 == n1.id
                  n2 == new_pattern(n1.nfa, s1, pattern.elems[1])
                  s2 == n2.id
                  n3 == new_state(n2.nfa)
                  s3 == n3.id
              IN [nfa |-> connect(connect(connect(connect(n3.nfa,
                              current, s1), current, s3), s2, s3), s3, s1),
                  id |-> s3]
         [] pattern.tag = "Seq" -> seq_fold(nfa, current, pattern.elems, 1)
         [] pattern.tag = "Or" ->
              LET m == or_map(nfa, current, pattern.elems, 1, << >>)
                  e == new_state(m.nfa)
              IN [nfa |-> connect_all(e.nfa, m.states, e.id, 1), id |-> e.id]
         [] pattern.tag = "Always" -> [nfa |-> nfa, id |-> current]
         [] pattern.tag = "Never" ->
              LET s == new_state(nfa)
              IN [nfa |-> connect(s.nfa, current, s.id), id |-> s.id]

new_pattern(nfa0, source, pattern) ==
    LET c == new_state(nfa0)
        current == c.id
        nfa == connect(c.nfa, source, current)
    IN CASE pattern.tag = "Range" ->
              LET s == new_state(nfa)
              IN [nfa |-> connect_via(s.nfa, current, s.id, pattern.lo, pattern.hi),
                  id |-> s.id]
         [] pattern.tag = "Many" ->
              LET n1 == new_state(nfa)
                  s1 == n1.id
                  n2 == new_pattern(n1.nfa, s1, pattern.elems[1])
                  s2 == n2.id
                  n3 == new_state(n2.nfa)
                  s3 == n3.id
              IN [nfa |-> connect(connect(connect(connect(n3.nfa,
                              current, s1), current, s3), s2, s3), s3, s1),
                  id |-> s3]
         [] pattern.tag = "Seq" -> seq_fold(nfa, current, pattern.elems, 1)
         [] pattern.tag = "Or" ->
              LET m == or_map(nfa, current, pattern.elems, 1, << >>)
                  e == new_state(m.nfa)
              IN [nfa |-> connect_all(e.nfa, m.states, e.id, 1), id |-> e.id]
         [] pattern.tag = "Always" -> [nfa |-> nfa, id |-> current]
         [] pattern.tag = "Never" -> new_state(nfa)

\* NFA::eps_matrix and its inner fill_eps_matrix.  st carries the two
\* vectors the recursion mutates: states (the closures) and visited.
RECURSIVE fill_eps_matrix(_, _, _), fill_eps_links(_, _, _, _, _)

\* The loop without state_set.extend(states[target.id].iter()).
fill_eps_links_direct(nfa, st, state, j, state_set) ==
    IF j > Len(nfa.states[state + 1].epsilon_links)
    THEN [st |-> st, state_set |-> state_set]
    ELSE LET target == nfa.states[state + 1].epsilon_links[j]
             st2 == IF ~st.visited[target + 1]
                    THEN fill_eps_matrix(nfa, st, target)
                    ELSE st
         IN fill_eps_links(nfa, st2, state, j + 1, state_set \cup {target})

fill_eps_links(nfa, st, state, j, state_set) ==
    IF j > Len(nfa.states[state + 1].epsilon_links)
    THEN [st |-> st, state_set |-> state_set]
    ELSE LET target == nfa.states[state + 1].epsilon_links[j]
             st2 == IF ~st.visited[target + 1]
                    THEN fill_eps_matrix(nfa, st, target)
                    ELSE st
         IN fill_eps_links(nfa, st2, state, j + 1,
                (state_set \cup {target}) \cup st2.states[target + 1])

\* entered lists the states fill_eps_matrix was called with, in call order:
\* a record of the calls, which the code does not keep.
fill_eps_matrix(nfa, st, state) ==
    LET st1 == [st EXCEPT !.visited[state + 1] = TRUE, !.entered = Append(@, state)]
        r == fill_eps_links(nfa, st1, state, 1, {state})
    IN [r.st EXCEPT !.states[state + 1] = r.state_set]

\* The for loop of eps_matrix; acc.entered gets one list of calls per id.
RECURSIVE eps_matrix_loop(_, _, _)
eps_matrix_loop(nfa, acc, id) ==
    IF id >= Len(nfa.states) THEN acc
    ELSE LET visited == [k \in 1..Len(acc.states) |-> FALSE]
             st == fill_eps_matrix(nfa, [states |-> acc.states, visited |-> visited,
                                         entered |-> << >>], id)
         IN strict(st.states,
                   eps_matrix_loop(nfa, [states |-> st.states,
                                         entered |-> Append(acc.entered, st.entered)],
                                   id + 1))

eps_matrix_run(nfa) ==
    eps_matrix_loop(nfa, [states |-> [k \in 1..Len(nfa.states) |-> {}],
                          entered |-> << >>], 0)

eps_matrix(nfa) == eps_matrix_run(nfa).states

\* links.sort_by_key(start): a stable sort.
RECURSIVE sort_insert(_, _), sort_by_start(_)
\* The sort that puts a link before the links with the same start.
sort_insert_ties_first(sorted, link) ==
    IF sorted = << >> THEN << link >>
    ELSE IF sorted[Len(sorted)].start < link.start THEN Append(sorted, link)
    ELSE Append(sort_insert(SubSeq(sorted, 1, Len(sorted) - 1), link),
                sorted[Len(sorted)])

sort_insert(sorted, link) ==
    IF sorted = << >> THEN << link >>
    ELSE IF sorted[Len(sorted)].start <= link.start THEN Append(sorted, link)
    ELSE Append(sort_insert(SubSeq(sorted, 1, Len(sorted) - 1), link),
                sorted[Len(sorted)])

sort_by_start(links) ==
    IF links = << >> THEN << >>
    ELSE sort_insert(sort_by_start(SubSeq(links, 1, Len(links) - 1)),
                     links[Len(links)])

\* State::targets: one entry per division; index only moves forward.
RECURSIVE targets_skip(_, _, _), targets_loop(_, _, _, _, _)
targets_skip(links, index, sym) ==
    IF Len(links) > index /\ links[index + 1].end < sym
    THEN targets_skip(links, index + 1, sym)
    ELSE index

targets_loop(links, divs, k, index, acc) ==
    IF k > Len(divs) THEN acc
    ELSE LET sym == divs[k]
             ix == targets_skip(links, index, sym)
             t == IF Len(links) <= ix \/ links[ix + 1].start > sym
                  THEN INVALID
                  ELSE links[ix + 1].target_state
         IN strict(t, targets_loop(links, divs, k + 1, ix, Append(acc, t)))

targets(state, alphabet) ==
    targets_loop(sort_by_start(state.links), btree_iter(alphabet), 1, 0, << >>)

\* NFA::nfa_matrix: row state_ix + 1 holds the targets of that state.
nfa_matrix(nfa) ==
    [state_ix \in 1..Len(nfa.states) |->
        targets(nfa.states[state_ix], nfa.alphabet_segmentation)]

\* ----------------------------------------------------------------- DFA
\* The worklist loop of DFA::from.  ctx carries dfa_mat, dfa_eps_ixs and
\* dfa_eps_map (a function from state sets to ids).
RECURSIVE dfa_eps_set(_, _, _, _, _)
\* The union of the targets themselves, without their epsilon closures.
dfa_eps_set_without_closure(nfa_mat, eps_mat, ixs, voc_ix, k) ==
    IF k > Len(ixs) THEN {}
    ELSE LET tgt == nfa_mat[ixs[k] + 1][voc_ix + 1]
         IN (IF tgt # INVALID THEN {tgt} ELSE {})
                \cup dfa_eps_set(nfa_mat, eps_mat, ixs, voc_ix, k + 1)

dfa_eps_set(nfa_mat, eps_mat, ixs, voc_ix, k) ==
    IF k > Len(ixs) THEN {}
    ELSE LET tgt == nfa_mat[ixs[k] + 1][voc_ix + 1]
         IN (IF tgt # INVALID THEN eps_mat[tgt + 1] ELSE {})
                \cup dfa_eps_set(nfa_mat, eps_mat, ixs, voc_ix, k + 1)

RECURSIVE dfa_row(_, _, _, _, _, _), dfa_loop(_, _, _, _, _)

\* A new set gets the id dfa_eps_ixs.len() + 1.
dfa_row_id_off_by_one(nfa_mat, eps_mat, columns, ctx, i, voc_ix) ==
    IF voc_ix >= columns THEN ctx
    ELSE LET eps_set == dfa_eps_set(nfa_mat, eps_mat,
                            btree_iter(ctx.dfa_eps_ixs[i + 1]), voc_ix, 1)
             ctx2 ==
                IF eps_set = {} THEN ctx
                ELSE IF eps_set \in DOMAIN ctx.dfa_eps_map
                THEN [ctx EXCEPT !.dfa_mat[i + 1][voc_ix + 1] = ctx.dfa_eps_map[eps_set]]
                ELSE LET id == Len(ctx.dfa_eps_ixs) + 1
                     IN [dfa_mat |-> [ctx.dfa_mat EXCEPT ![i + 1][voc_ix + 1] = id],
                         dfa_eps_ixs |-> Append(ctx.dfa_eps_ixs, eps_set),
                         dfa_eps_map |-> [s \in DOMAIN ctx.dfa_eps_map \cup {eps_set} |->
                                            IF s = eps_set THEN id ELSE ctx.dfa_eps_map[s]]]
         IN dfa_row(nfa_mat, eps_mat, columns, ctx2, i, voc_ix + 1)

\* The row step that takes the empty set for a set like any other.
dfa_row_keeping_empty(nfa_mat, eps_mat, columns, ctx, i, voc_ix) ==
    IF voc_ix >= columns THEN ctx
    ELSE LET eps_set == dfa_eps_set(nfa_mat, eps_mat,
                            btree_iter(ctx.dfa_eps_ixs[i + 1]), voc_ix, 1)
             ctx2 ==
                IF eps_set \in DOMAIN ctx.dfa_eps_map
                THEN [ctx EXCEPT !.dfa_mat[i + 1][voc_ix + 1] = ctx.dfa_eps_map[eps_set]]
                ELSE LET id == Len(ctx.dfa_eps_ixs)
                     IN [dfa_mat |-> [ctx.dfa_mat EXCEPT ![i + 1][voc_ix + 1] = id],
                         dfa_eps_ixs |-> Append(ctx.dfa_eps_ixs, eps_set),
                         dfa_eps_map |-> [s \in DOMAIN ctx.dfa_eps_map \cup {eps_set} |->
                                            IF s = eps_set THEN id ELSE ctx.dfa_eps_map[s]]]
         IN dfa_row(nfa_mat, eps_mat, columns, ctx2, i, voc_ix + 1)

dfa_row(nfa_mat, eps_mat, columns, ctx, i, voc_ix) ==
    IF voc_ix >= columns THEN ctx
    ELSE LET eps_set == dfa_eps_set(nfa_mat, eps_mat,
                            btree_iter(ctx.dfa_eps_ixs[i + 1]), voc_ix, 1)
             ctx2 ==
                IF eps_set = {} THEN ctx
                ELSE IF eps_set \in DOMAIN ctx.dfa_eps_map
                THEN [ctx EXCEPT !.dfa_mat[i + 1][voc_ix + 1] = ctx.dfa_eps_map[eps_set]]
                ELSE LET id == Len(ctx.dfa_eps_ixs)
                     IN [dfa_mat |-> [ctx.dfa_mat EXCEPT ![i + 1][voc_ix + 1] = id],
                         dfa_eps_ixs |-> Append(ctx.dfa_eps_ixs, eps_set),
                         dfa_eps_map |-> [s \in DOMAIN ctx.dfa_eps_map \cup {eps_set} |->
                                            IF s = eps_set THEN id ELSE ctx.dfa_eps_map[s]]]
         IN dfa_row(nfa_mat, eps_mat, columns, ctx2, i, voc_ix + 1)

\* The loop that makes two rows for the first set.
dfa_loop_first_row_twice(nfa_mat, eps_mat, columns, ctx, i) ==
    IF ~(i < Len(ctx.dfa_eps_ixs)) THEN ctx
    ELSE LET row == [c \in 1..columns |-> INVALID]
             new_row == [ctx EXCEPT !.dfa_mat =
                            IF i = 0 THEN Append(Append(@, row), row) ELSE Append(@, row)]
         IN dfa_loop(nfa_mat, eps_mat, columns,
                     dfa_row(nfa_mat, eps_mat, columns, new_row, i, 0), i + 1)

dfa_loop(nfa_mat, eps_mat, columns, ctx, i) ==
    IF ~(i < Len(ctx.dfa_eps_ixs)) THEN ctx
    ELSE LET new_row == [ctx EXCEPT !.dfa_mat =
                            Append(@, [c \in 1..columns |-> INVALID])]
         IN dfa_loop(nfa_mat, eps_mat, columns,
                     dfa_row(nfa_mat, eps_mat, columns, new_row, i, 0), i + 1)

\* The worklist started from state 0 alone instead of its epsilon closure.
dfa_worklist_start_only(nfa) ==
    LET nfa_mat == nfa_matrix(nfa)
        eps_mat == eps_matrix(nfa)
        init == [dfa_mat |-> << >>,
                 dfa_eps_ixs |-> << {0} >>,
                 dfa_eps_map |-> [s \in {{0}} |-> 0]]
    IN dfa_loop(nfa_mat, eps_mat, len(nfa.alphabet_segmentation), init, 0)

\* The locals of DFA::from when the worklist loop ends.
dfa_worklist(nfa) ==
    LET nfa_mat == nfa_matrix(nfa)
        eps_mat == eps_matrix(nfa)
        init == [dfa_mat |-> << >>,
                 dfa_eps_ixs |-> << eps_mat[1] >>,
                 dfa_eps_map |-> [s \in {eps_mat[1]} |-> 0]]
    IN dfa_loop(nfa_mat, eps_mat, len(nfa.alphabet_segmentation), init, 0)

\* The last named state instead of the first.
find_last_has_name(nfa, epss, k) ==
    LET named == {i \in k..Len(epss) : is_some(nfa.states[epss[i] + 1].name)}
    IN IF named = {} THEN None
       ELSE Some(epss[CHOOSE i \in named : \A j \in named : j <= i])

\* epss.into_iter().find(has_name): the first named state in ascending order.
RECURSIVE find_has_name(_, _, _)
find_has_name(nfa, epss, k) ==
    IF k > Len(epss) THEN None
    ELSE IF is_some(nfa.states[epss[k] + 1].name) THEN Some(epss[k])
    ELSE find_has_name(nfa, epss, k + 1)

\* The labelling with each row's own index as its priority.
dfa_callbacks_priority_by_row(nfa, dfa_eps_ixs) ==
    [dfa_ix \in 1..Len(dfa_eps_ixs) |->
        LET eps == find_has_name(nfa, btree_iter(dfa_eps_ixs[dfa_ix]), 1)
        IN IF is_some(eps)
           THEN Some([code |-> unwrap(nfa.states[unwrap(eps) + 1].name),
                      priority |-> dfa_ix - 1])
           ELSE None]

\* The accept labelling of DFA::from.
dfa_callbacks(nfa, dfa_eps_ixs) ==
    LET priority == Len(dfa_eps_ixs)
    IN [dfa_ix \in 1..Len(dfa_eps_ixs) |->
          LET eps == find_has_name(nfa, btree_iter(dfa_eps_ixs[dfa_ix]), 1)
          IN IF is_some(eps)
             THEN Some([code |-> unwrap(nfa.states[unwrap(eps) + 1].name),
                        priority |-> priority])
             ELSE None]

\* impl From<&NFA> for DFA
DFA_from(nfa) ==
    LET ctx == dfa_worklist(nfa)
    IN [alphabet_segmentation |-> nfa.alphabet_segmentation,
        links |-> ctx.dfa_mat,
        callbacks |-> dfa_callbacks(nfa, ctx.dfa_eps_ixs)]

\* has_rule_for without callback.unwrap().is_some().
has_rule_for_any_row(dfa, target_state) ==
    LET callback == IF target_state < Len(dfa.callbacks)
                    THEN Some(dfa.callbacks[target_state + 1])
                    ELSE None
    IN is_some(callback)

\* DFA::has_rule_for
has_rule_for(dfa, target_state) ==
    LET callback == IF target_state < Len(dfa.callbacks)
                    THEN Some(dfa.callbacks[target_state + 1])
                    ELSE None
    IN is_some(callback) /\ is_some(unwrap(callback))

\* ------------------------------------------------------------ registry
\* Group::new
Group_new(id, name, parent_index) ==
    [id |-> id, name |-> name, parent_index |-> parent_index, rules |-> << >>]

\* Rule::new
Rule_new(pattern, callback) == [pattern |-> pattern, callback |-> callback]

\* Registry::next_id
next_id(groups) == Len(groups)

\* Registry::define_group: the registry after the call and the id returned.
define_group(groups, name, parent_index) ==
    LET id == next_id(groups)
    IN [groups |-> Append(groups, Group_new(id, name, parent_index)), id |-> id]

\* add_group that stores the group with the id it came with.
add_group_keeping_id(groups, group) ==
    LET new_id == next_id(groups)
    IN [groups |-> Append(groups, group), id |-> new_id]

\* Registry::add_group
add_group(groups, group) ==
    LET new_id == next_id(groups)
    IN [groups |-> Append(groups, [group EXCEPT !.id = new_id]), id |-> new_id]

\* Registry::group and Registry::group_mut: get(..).expect(..)
group_exists(groups, group) == group < Len(groups)

\* Registry::create_rule and Registry::add_rule: the outcome and the registry
\* after the call; a missing group is a panic that changes nothing.
add_rule(groups, group, rule) ==
    IF ~group_exists(groups, group)
    THEN [outcome |-> "UnknownGroup", groups |-> groups]
    ELSE [outcome |-> "ok",
          groups |-> [groups EXCEPT ![group + 1].rules = Append(@, rule)]]

create_rule(groups, group, pattern, callback) ==
    add_rule(groups, group, Rule_new(pattern, callback))

\* Registry::rules_for.  The while loop follows parent_index; its next
\* iteration depends on the current parent alone, so when a parent comes up a
\* second time without being the group asked for, the loop never exits:
\* that outcome is "diverges".  seen holds the parents the loop has visited.
RECURSIVE rules_for_loop(_, _, _, _, _)

\* The parent's rules put before the rules collected so far.
rules_for_loop_parents_first(groups, group_handle, parent, rules, seen) ==
    IF ~is_some(parent) THEN [outcome |-> "ok", rules |-> rules]
    ELSE IF ~group_exists(groups, unwrap(parent))
    THEN [outcome |-> "UnknownGroup", rules |-> << >>]
    ELSE LET parent_group == groups[unwrap(parent) + 1]
         IN IF parent_group.id = group_handle.id
            THEN [outcome |-> "CycleInParents", rules |-> << >>]
            ELSE IF unwrap(parent) \in seen
            THEN [outcome |-> "diverges", rules |-> << >>]
            ELSE rules_for_loop(groups, group_handle, parent_group.parent_index,
                                parent_group.rules \o rules,
                                seen \cup {unwrap(parent)})

\* The loop taking a parent that is not stored for the end of the chain.
rules_for_loop_lenient(groups, group_handle, parent, rules, seen) ==
    IF ~is_some(parent) THEN [outcome |-> "ok", rules |-> rules]
    ELSE IF ~group_exists(groups, unwrap(parent))
    THEN [outcome |-> "ok", rules |-> rules]
    ELSE LET parent_group == groups[unwrap(parent) + 1]
         IN IF parent_group.id = group_handle.id
            THEN [outcome |-> "CycleInParents", rules |-> << >>]
            ELSE IF unwrap(parent) \in seen
            THEN [outcome |-> "diverges", rules |-> << >>]
            ELSE rules_for_loop(groups, group_handle, parent_group.parent_index,
                                rules \o parent_group.rules,
                                seen \cup {unwrap(parent)})

\* The loop without its comparison with the group asked for.
rules_for_loop_unchecked(groups, group_handle, parent, rules, seen) ==
    IF ~is_some(parent) THEN [outcome |-> "ok", rules |-> rules]
    ELSE IF ~group_exists(groups, unwrap(parent))
    THEN [outcome |-> "UnknownGroup", rules |-> << >>]
    ELSE LET parent_group == groups[unwrap(parent) + 1]
         IN IF unwrap(parent) \in seen
            THEN [outcome |-> "diverges", rules |-> << >>]
            ELSE rules_for_loop(groups, group_handle, parent_group.parent_index,
                                rules \o parent_group.rules,
                                seen \cup {unwrap(parent)})

rules_for_loop(groups, group_handle, parent, rules, seen) ==
    IF ~is_some(parent) THEN [outcome |-> "ok", rules |-> rules]
    ELSE IF ~group_exists(groups, unwrap(parent))
    THEN [outcome |-> "UnknownGroup", rules |-> << >>]
    ELSE LET parent_group == groups[unwrap(parent) + 1]
         IN IF parent_group.id = group_handle.id
            THEN [outcome |-> "CycleInParents", rules |-> << >>]
            ELSE IF unwrap(parent) \in seen
            THEN [outcome |-> "diverges", rules |-> << >>]
            ELSE rules_for_loop(groups, group_handle, parent_group.parent_index,
                                rules \o parent_group.rules,
                                seen \cup {unwrap(parent)})

rules_for(groups, group) ==
    IF ~group_exists(groups, group)
    THEN [outcome |-> "UnknownGroup", rules |-> << >>]
    ELSE LET group_handle == groups[group + 1]
         IN rules_for_loop(groups, group_handle, group_handle.parent_index,
                           group_handle.rules, {})

\* The name without the rule's index: "group_<gid>_rule_0" for every rule.
callback_name_without_index(group, rule_ix) == << "group", group.id, "rule", 0 >>

\* "group_<gid>_rule_<ridx>", kept as the pair it is formatted from.
callback_name(group, rule_ix) == << "group", group.id, "rule", rule_ix >>

\* --------------------------------------------- AutomatonData, to_nfa_from
\* The automaton type used by to_nfa_from starts with its start state, id 0.
AutomatonData_default ==
    [automaton |-> new_state(NFA_default).nfa,
     start |-> 0,
     states |-> << >>,
     transition_names |-> << >>,
     callback_code |-> << >>]

\* A HashMap<usize,String> is a function on the ids it holds.
map_insert(m, k, v) == [x \in DOMAIN m \cup {k} |-> IF x = k THEN v ELSE m[x]]
map_get(m, k) == IF k \in DOMAIN m THEN Some(m[k]) ELSE None

set_name(data, state_id, name) ==
    [data EXCEPT !.transition_names = map_insert(@, state_id, name)]

set_code(data, state_id, code) ==
    [data EXCEPT !.callback_code = map_insert(@, state_id, code)]

add_public_state(data, state) == [data EXCEPT !.states = Append(@, state)]

\* bool::and_option of the prelude: the option when the bool holds.
and_option(cond, opt) == IF cond THEN opt ELSE None

\* sources.iter().flat_map(|state| callback_code.get(&state.id())): the codes
\* of the sources that have one, in the order of sources.
RECURSIVE flat_map_codes(_, _, _)
flat_map_codes(callback_code, sources, i) ==
    IF i > Len(sources) THEN << >>
    ELSE map_get(callback_code, sources[i]) \o flat_map_codes(callback_code, sources, i + 1)

\* AutomatonData::callback_for_state
callback_for_state(data, sources) ==
    LET callbacks == flat_map_codes(data.callback_code, sources, 1)
        first == IF callbacks = << >> THEN None ELSE Some(callbacks[1])
    IN and_option(Len(callbacks) = 0, first)

\* The states of to_nfa_from's map over the rules: new_pattern from start.
RECURSIVE build_rules(_, _, _, _, _)
build_rules(nfa, start, rules, i, states) ==
    IF i > Len(rules) THEN [nfa |-> nfa, states |-> states]
    ELSE LET r == new_pattern(nfa, start, rules[i].pattern)
         IN strict(r.id, build_rules(r.nfa, start, rules, i + 1, Append(states, r.id)))

\* The for loop of to_nfa_from over the rules' end states.
RECURSIVE name_rules(_, _, _, _, _, _)
name_rules(data, group, callbacks, states, end, ix) ==
    IF ix >= Len(states) THEN data
    ELSE LET state == states[ix + 1]
             d1 == add_public_state(data, state)
             d2 == set_name(d1, state, callback_name(group, ix))
             d3 == set_code(d2, state, callbacks[ix + 1])
             d4 == [d3 EXCEPT !.automaton = connect(@, state, end)]
         IN name_rules(d4, group, callbacks, states, end, ix + 1)

\* Registry::to_nfa_from: the outcome and, when it is "ok", the AutomatonData.
to_nfa_from(groups, group_id) ==
    LET rs == rules_for(groups, group_id)
    IN IF rs.outcome # "ok"
       THEN [outcome |-> rs.outcome, data |-> AutomatonData_default]
       ELSE LET group == groups[group_id + 1]
                nfa0 == AutomatonData_default
                start == nfa0.start
                d0 == add_public_state(nfa0, start)
                rules == rs.rules
                callbacks == [i \in 1..Len(rules) |-> rules[i].callback]
                built == build_rules(d0.automaton, start, rules, 1, << >>)
                e == new_state(built.nfa)
                d1 == [d0 EXCEPT !.automaton = e.nfa]
                d2 == name_rules(d1, group, callbacks, built.states, e.id, 0)
            IN [outcome |-> "ok", data |-> add_public_state(d2, e.id)]

\* The automaton as DFA::from reads it: a state's name() is the name
\* attached to its id.
named_automaton(data) ==
    [data.automaton EXCEPT !.states =
        [i \in 1..Len(data.automaton.states) |->
            [data.automaton.states[i] EXCEPT
                !.name = map_get(data.transition_names, i - 1)]]]

\* ------------------------------------------------- none_of, none_of_codes
\* codes.sort(); codes.dedup(): the codes in ascending order, each once.
sort_dedup(codes) == btree_iter({codes[i] : i \in 1..Len(codes)})

\* u32 addition and subtraction: the value kept in the width of a symbol and
\* whether the exact result left that width.
add_u32(x, y) == [value |-> (x + y) % SymbolModulus, overflow |-> x + y >= SymbolModulus]

sub_u32(x, y) == [value |-> (x - y) % SymbolModulus, overflow |-> x - y < 0]

\* The fold over tuple_windows: one range per gap between neighbours.
RECURSIVE none_of_codes_fold(_, _, _, _)
none_of_codes_fold(codes, i, pat, overflow) ==
    IF i + 1 > Len(codes) THEN [pattern |-> pat, overflow |-> overflow]
    ELSE LET start == add_u32(codes[i], 1)
             end == sub_u32(codes[i + 1], 1)
             ovf == overflow \/ start.overflow \/ end.overflow
         IN IF end.value < start.value
            THEN none_of_codes_fold(codes, i + 1, pat, ovf)
            ELSE none_of_codes_fold(codes, i + 1,
                                    bitor(pat, Range(start.value, end.value)), ovf)

\* Pattern::none_of_codes: the outcome ("panic" for an unwrap of None), the
\* pattern returned and whether an addition or subtraction overflowed.
none_of_codes(codes0) ==
    LET codes == sort_dedup(codes0)
        has(c) == \E i \in 1..Len(codes) : codes[i] = c
        f == none_of_codes_fold(codes, 1, Never, FALSE)
        pattern == f.pattern
        Failed == [outcome |-> "panic", pattern |-> Never, overflow |-> f.overflow]
    IN IF has(NULL) /\ has(EOF_CODE)
       THEN [outcome |-> "ok", pattern |-> pattern, overflow |-> f.overflow]
       ELSE IF codes = << >> THEN Failed
       ELSE LET last_1 == add_u32(codes[Len(codes)], 1)
                first_1 == sub_u32(codes[1], 1)
                last_to_eof == Range(last_1.value, EOF_CODE)
                null_to_first == Range(NULL, first_1.value)
            IN IF has(NULL)
               THEN [outcome |-> "ok", pattern |-> bitor(pattern, last_to_eof),
                     overflow |-> f.overflow \/ last_1.overflow]
               ELSE IF has(EOF_CODE)
               THEN [outcome |-> "ok", pattern |-> bitor(null_to_first, pattern),
                     overflow |-> f.overflow \/ first_1.overflow]
               ELSE [outcome |-> "ok",
                     pattern |-> bitor(bitor(null_to_first, pattern), last_to_eof),
                     overflow |-> f.overflow \/ last_1.overflow \/ first_1.overflow]

\* Pattern::none_of: the codes of the characters between NULL and EOF_CODE.
none_of(chars) == none_of_codes(<< NULL >> \o chars \o << EOF_CODE >>)

\* ------------------------------------------------------------- the state
VARIABLES
    groups,        \* Registry.groups
    last,          \* the last registry call: its arguments and what it returned
    data,          \* Option: the AutomatonData returned by to_nfa_from
    dfa,           \* Option: the DFA returned by DFA::from
    dfa_eps_ixs,   \* DFA::from's local dfa_eps_ixs when it returned
    divisions,     \* a Segmentation's division set
    inserts,       \* the number of insert calls made on it
    hnfa,          \* an NFA built by hand with new_state and connect
    eps_mat        \* Option: the value eps_matrix returned for hnfa

vars == << groups, last, data, dfa, dfa_eps_ixs, divisions, inserts, hnfa, eps_mat >>

NoCall == [op |-> "none", group |-> 0, outcome |-> "ok", id |-> 0, rules |-> << >>,
           lo |-> 0, hi |-> 0, patterns |-> << >>, result |-> None,
           codes |-> << >>, overflow |-> FALSE, returned |-> None, source |-> 0]

\* ------------------------------------------------ inputs of the compile runs
a == symbol(97)
b == symbol(98)

PatternPool ==
    { a,
      Range(97, 98),
      Range(98, 97),
      Range(NULL, 97),
      Range(98, EOF_CODE),
      any,
      eof,
      Always,
      Never,
      Many(a),
      Many(Always),
      Many(Many(a)),
      Many(Or(<< a, Seq_(<< b, a >>) >>)),
      Seq_(<< >>),
      Seq_(<< Always, Always >>),
      Seq_(<< a, b >>),
      Seq_(<< Many(a), b >>),
      Seq_(<< Never, a >>),
      Seq_(<< any, eof >>),
      Seq_(<< Or(<< a, b >>), Or(<< b, Always >>) >>),
      Or(<< >>),
      Or(<< b, Always >>),
      Or(<< Never, b >>),
      Or(<< Seq_(<< a, b >>), Seq_(<< a, a >>) >>) }

\* The patterns of registries with more rules: rules that match common words.
SmallPool == { a, Many(a), Always, Seq_(<< a, b >>) }

\* The rule list of tests::complex_rules.
space == symbol(32)

ComplexRules == << shr(space, many1(a)), shr(space, many1(b)), eof, any >>

\* The patterns of rules is a prefix of list.
IsPrefix(rules, list) ==
    /\ Len(rules) <= Len(list)
    /\ \A i \in 1..Len(rules) : rules[i].pattern = list[i]

AllRulesIn(gs, pool) ==
    \A g \in 1..Len(gs) : \A i \in 1..Len(gs[g].rules) : gs[g].rules[i].pattern \in pool

TotalRules(gs) ==
    LET RECURSIVE sum(_)
        sum(i) == IF i > Len(gs) THEN 0 ELSE Len(gs[i].rules) + sum(i + 1)
    IN sum(1)

\* ------------------------------------------------- the compile specification
Init ==
    /\ groups = << >>
    /\ last = NoCall
    /\ data = None
    /\ dfa = None
    /\ dfa_eps_ixs = << >>
    /\ divisions = Segmentation_default
    /\ inserts = 0
    /\ hnfa = NFA_default
    /\ eps_mat = None

DefineGroup(parent_index) ==
    /\ data = None
    /\ Len(groups) < MaxGroups
    /\ LET r == define_group(groups, "group", parent_index)
       IN /\ groups' = r.groups
          /\ last' = [NoCall EXCEPT !.op = "define_group", !.id = r.id]
    /\ UNCHANGED << data, dfa, dfa_eps_ixs, divisions, inserts, hnfa, eps_mat >>

CreateRule(group, pattern, callback) ==
    /\ data = None
    /\ \/ /\ TotalRules(groups) < MaxRules
          /\ pattern \in PatternPool
       \/ /\ TotalRules(groups) < MaxSmallRules
          /\ pattern \in SmallPool
          /\ AllRulesIn(groups, SmallPool)
       \/ /\ Len(groups) = 1
          /\ IsPrefix(Append(groups[1].rules, Rule_new(pattern, callback)), ComplexRules)
    /\ LET r == create_rule(groups, group, pattern, callback)
       IN /\ groups' = r.groups
          /\ last' = [NoCall EXCEPT !.op = "create_rule", !.group = group,
                                    !.outcome = r.outcome]
    /\ UNCHANGED << data, dfa, dfa_eps_ixs, divisions, inserts, hnfa, eps_mat >>

ToNfaFrom(group_id) ==
    /\ data = None
    /\ LET r == to_nfa_from(groups, group_id)
       IN /\ last' = [NoCall EXCEPT !.op = "to_nfa_from", !.group = group_id,
                                    !.outcome = r.outcome,
                                    !.rules = rules_for(groups, group_id).rules]
          /\ data' = IF r.outcome = "ok" THEN Some(r.data) ELSE None
    /\ UNCHANGED << groups, dfa, dfa_eps_ixs, divisions, inserts, hnfa, eps_mat >>

DfaFrom ==
    /\ is_some(data)
    /\ dfa = None
    /\ LET nfa == named_automaton(unwrap(data))
       IN /\ dfa' = Some(DFA_from(nfa))
          /\ dfa_eps_ixs' = dfa_worklist(nfa).dfa_eps_ixs
    /\ UNCHANGED << groups, last, data, divisions, inserts, hnfa, eps_mat >>

Next ==
    \/ \E parent_index \in {None} \cup {Some(g) : g \in 0..(Len(groups) - 1)} :
           DefineGroup(parent_index)
    \/ \E group \in 0..(Len(groups) - 1),
          pattern \in PatternPool \cup {ComplexRules[i] : i \in 1..Len(ComplexRules)} :
           CreateRule(group, pattern, "")
    \/ \E group_id \in 0..(Len(groups) - 1) : ToNfaFrom(group_id)
    \/ DfaFrom

Spec == Init /\ [][Next]_vars

\* ------------------------------------------- what a pattern matches, a walk
\* The language of a pattern, by its meaning: Range one symbol of the range,
\* Or some element, Seq the elements one after the other, Many any number of
\* repetitions, Always the empty word, Never nothing.
RECURSIVE Matches(_, _), MatchesSeq(_, _, _)
Matches(p, w) ==
    CASE p.tag = "Range" -> Len(w) = 1 /\ p.lo <= w[1] /\ w[1] <= p.hi
      [] p.tag = "Always" -> w = << >>
      [] p.tag = "Never" -> FALSE
      [] p.tag = "Or" -> \E i \in 1..Len(p.elems) : Matches(p.elems[i], w)
      [] p.tag = "Seq" -> MatchesSeq(p.elems, 1, w)
      [] p.tag = "Many" ->
            \/ w = << >>
            \/ \E k \in 1..Len(w) :
                  /\ Matches(p.elems[1], SubSeq(w, 1, k))
                  /\ Matches(p, SubSeq(w, k + 1, Len(w)))

MatchesSeq(ps, i, w) ==
    IF i > Len(ps) THEN w = << >>
    ELSE \E k \in 0..Len(w) :
            /\ Matches(ps[i], SubSeq(w, 1, k))
            /\ MatchesSeq(ps, i + 1, SubSeq(w, k + 1, Len(w)))

\* The column of the segmentation interval that holds symbol s.
ColumnOf(segmentation, s) == Cardinality({d \in segmentation : d <= s}) - 1

\* The row a walk of w from row 0 ends in; INVALID once INVALID is met.
RECURSIVE Walk(_, _, _, _)
Walk(d, row, w, i) ==
    IF i > Len(w) \/ row = INVALID THEN row
    ELSE Walk(d, d.links[row + 1][ColumnOf(d.alphabet_segmentation, w[i]) + 1], w, i + 1)

Accepts(d, w) == LET row == Walk(d, 0, w, 1) IN row # INVALID /\ has_rule_for(d, row)

\* The symbols input words are made of: a symbol of every interval the
\* pool's ranges cut the alphabet into.
Sigma == {NULL, 97, 98, 99, EOF_CODE}

RECURSIVE WordsUpTo(_)
WordsUpTo(n) ==
    IF n = 0 THEN {<< >>}
    ELSE LET shorter == WordsUpTo(n - 1)
         IN shorter \cup {Append(w, s) : w \in shorter, s \in Sigma}

Words == WordsUpTo(MaxWord)

\* C1: a compiled DFA accepts a word exactly when some rule of the group
\* matches the whole word.
C1_LanguageEquivalence ==
    is_some(dfa) =>
        \A w \in Words :
            Accepts(unwrap(dfa), w)
                <=> \E i \in 1..Len(last.rules) : Matches(last.rules[i].pattern, w)

\* A DFA compiled from two rules that accepts a word of three symbols and
\* rejects another one.
C1_Witness ==
    /\ is_some(dfa)
    /\ Len(last.rules) = 2
    /\ \E w \in Words : Len(w) = 3 /\ Accepts(unwrap(dfa), w)
    /\ \E w \in Words : Len(w) = 3 /\ ~Accepts(unwrap(dfa), w)

\* ------------------------------------------------------- rules and rows
\* The group the last to_nfa_from call compiled.
CompiledGroup == groups[last.group + 1]

\* The positions of the rules of the compiled group, 0-based.
RulePositions == 0..(Len(last.rules) - 1)

\* The accepting state of the rule at position ix: to_nfa_from's states[ix],
\* listed in AutomatonData.states after the start state.
AcceptState(ix) == unwrap(data).states[ix + 2]

\* The positions of the rules whose accepting state is in the NFA set of
\* DFA row `row`.
RulesIn(row) == {k \in RulePositions : AcceptState(k) \in dfa_eps_ixs[row + 1]}

Rows == 0..(Len(unwrap(dfa).links) - 1)

BoundTo(row, ix) ==
    LET callback == unwrap(dfa).callbacks[row + 1]
    IN is_some(callback) /\ unwrap(callback).code = callback_name(CompiledGroup, ix)

\* The statement of C2 as written: for rules i < j the accepting state of i
\* has the smaller id, and a DFA row whose set holds both is bound to rule i.
C2_Original ==
    is_some(dfa) =>
        \A i \in RulePositions : \A j \in RulePositions :
            i < j =>
                /\ AcceptState(i) < AcceptState(j)
                /\ \A row \in Rows : {i, j} \subseteq RulesIn(row) => BoundTo(row, i)

\* C2 (amended): for rules i < j the accepting state of i has the smaller
\* id, and a DFA row whose set holds both accepting states is bound to the
\* rule of lowest position whose accepting state is in the set, which is
\* rule i or a rule before it and never rule j.
C2_FirstRuleWins ==
    is_some(dfa) =>
        \A i \in RulePositions : \A j \in RulePositions :
            i < j =>
                /\ AcceptState(i) < AcceptState(j)
                /\ \A row \in Rows :
                      {i, j} \subseteq RulesIn(row) =>
                          /\ \E k \in RulesIn(row) :
                                /\ \A m \in RulesIn(row) : k <= m
                                /\ k <= i
                                /\ BoundTo(row, k)
                          /\ ~BoundTo(row, j)

\* A DFA of three rules with a row that holds the accepting states of the
\* second and the third rule and of the first one too, and another row that
\* holds those of the second and third alone.
C2_Witness ==
    /\ is_some(dfa)
    /\ Len(last.rules) = 3
    /\ \E row \in Rows : RulesIn(row) = {0, 1, 2} /\ BoundTo(row, 0)
    /\ \E row \in Rows : RulesIn(row) = {1, 2} /\ BoundTo(row, 1)

\* ------------------------------------------------ the registry specification
\* Registry calls with any arguments: parents that are the group itself, a
\* later group or no group at all, and rules for groups that do not exist.
GroupIds == 0..(MaxRegGroups - 1)

ParentIndexes == {None} \cup {Some(g) : g \in GroupIds}

\* The callback of the n-th rule created: every rule gets one of its own.
Callback(n) == << "r0", "r1", "r2", "r3", "r4", "r5", "r6", "r7" >>[n + 1]

RegDefineGroup(parent_index) ==
    /\ Len(groups) < MaxRegGroups
    /\ LET r == define_group(groups, "group", parent_index)
       IN /\ groups' = r.groups
          /\ last' = [NoCall EXCEPT !.op = "define_group", !.id = r.id]
    /\ UNCHANGED << data, dfa, dfa_eps_ixs, divisions, inserts, hnfa, eps_mat >>

\* add_group is handed a group made elsewhere, with an id of its own.
RegAddGroup(parent_index) ==
    /\ Len(groups) < MaxRegGroups
    /\ LET r == add_group(groups, Group_new(MaxRegGroups, "group", parent_index))
       IN /\ groups' = r.groups
          /\ last' = [NoCall EXCEPT !.op = "add_group", !.id = r.id]
    /\ UNCHANGED << data, dfa, dfa_eps_ixs, divisions, inserts, hnfa, eps_mat >>

RegCreateRule(group) ==
    /\ TotalRules(groups) < MaxRegRules
    /\ LET r == create_rule(groups, group, a, Callback(TotalRules(groups)))
       IN /\ groups' = r.groups
          /\ last' = [NoCall EXCEPT !.op = "create_rule", !.group = group,
                                    !.outcome = r.outcome]
    /\ UNCHANGED << data, dfa, dfa_eps_ixs, divisions, inserts, hnfa, eps_mat >>

RegAddRule(group) ==
    /\ TotalRules(groups) < MaxRegRules
    /\ LET r == add_rule(groups, group, Rule_new(a, Callback(TotalRules(groups))))
       IN /\ groups' = r.groups
          /\ last' = [NoCall EXCEPT !.op = "add_rule", !.group = group,
                                    !.outcome = r.outcome]
    /\ UNCHANGED << data, dfa, dfa_eps_ixs, divisions, inserts, hnfa, eps_mat >>

RulesFor(group) ==
    /\ LET r == rules_for(groups, group)
       IN last' = [NoCall EXCEPT !.op = "rules_for", !.group = group,
                                 !.outcome = r.outcome, !.rules = r.rules]
    /\ UNCHANGED << groups, data, dfa, dfa_eps_ixs, divisions, inserts, hnfa, eps_mat >>

\* to_nfa_from leaves the registry alone; the automaton it returned is the
\* result of the call.
RegToNfaFrom(group_id) ==
    /\ LET r == to_nfa_from(groups, group_id)
       IN last' = [NoCall EXCEPT !.op = "to_nfa_from", !.group = group_id,
                                 !.outcome = r.outcome,
                                 !.rules = rules_for(groups, group_id).rules,
                                 !.result = IF r.outcome = "ok" THEN Some(r.data)
                                            ELSE None]
    /\ UNCHANGED << groups, data, dfa, dfa_eps_ixs, divisions, inserts, hnfa, eps_mat >>

NextRegistry ==
    \/ \E parent_index \in ParentIndexes : RegDefineGroup(parent_index)
    \/ \E parent_index \in ParentIndexes : RegAddGroup(parent_index)
    \/ \E group \in GroupIds : RegCreateRule(group)
    \/ \E group \in GroupIds : RegAddRule(group)
    \/ \E group \in GroupIds : RulesFor(group)
    \/ \E group_id \in GroupIds : RegToNfaFrom(group_id)

SpecRegistry == Init /\ [][NextRegistry]_vars

\* The groups met by following parent links from group g, g first, for as
\* long as the link names a stored group and at most n links.
RECURSIVE ParentChain(_, _)
ParentChain(g, n) ==
    IF n = 0 \/ ~is_some(groups[g + 1].parent_index)
             \/ ~group_exists(groups, unwrap(groups[g + 1].parent_index))
    THEN << g >>
    ELSE << g >> \o ParentChain(unwrap(groups[g + 1].parent_index), n - 1)

\* Following parent links from g ends at a group without a parent.
ChainEnds(g) ==
    LET chain == ParentChain(g, Len(groups))
    IN /\ Len(chain) <= Len(groups)
       /\ ~is_some(groups[chain[Len(chain)] + 1].parent_index)

\* Following parent links from g leads back to g.
ChainReturns(g) ==
    \E k \in 2..(Len(groups) + 1) :
        LET chain == ParentChain(g, Len(groups))
        IN k <= Len(chain) /\ chain[k] = g

\* Following parent links from g never ends: it runs into a cycle.
ChainCycles(g) == Len(ParentChain(g, Len(groups))) = Len(groups) + 1

RECURSIVE ChainRules(_, _)
ChainRules(chain, k) ==
    IF k > Len(chain) THEN << >>
    ELSE groups[chain[k] + 1].rules \o ChainRules(chain, k + 1)

\* C3: for a group whose parent chain ends, rules_for returns the rules of the
\* group, then those of its parent, then those of each further ancestor, each
\* in insertion order.
C3_RulesForOrder ==
    (last.op = "rules_for" /\ group_exists(groups, last.group) /\ ChainEnds(last.group)) =>
        /\ last.outcome = "ok"
        /\ last.rules = ChainRules(ParentChain(last.group, Len(groups)), 1)

\* rules_for on a group with a parent and a grandparent, where the group's
\* own rule was created after the rule it inherits from the grandparent.
C3_Witness ==
    /\ last.op = "rules_for"
    /\ group_exists(groups, last.group)
    /\ ChainEnds(last.group)
    /\ LET chain == ParentChain(last.group, Len(groups))
       IN /\ Len(chain) = 3
          /\ Len(groups[chain[1] + 1].rules) = 1
          /\ Len(groups[chain[3] + 1].rules) = 1
          /\ groups[chain[3] + 1].rules[1].callback = Callback(0)
    /\ Len(last.rules) = 2
    /\ last.rules[1].callback = Callback(1)

\* C4: when following parent links from group g leads back to g (g may be its
\* own parent), rules_for(g) ends in the cycle failure, returns no rule list
\* and leaves the registry as it was.
C4_CycleThroughGroup ==
    [][(/\ last'.op = "rules_for"
        /\ group_exists(groups, last'.group)
        /\ ChainReturns(last'.group))
       => (/\ last'.outcome = "CycleInParents"
           /\ last'.rules = << >>
           /\ groups' = groups)]_vars

\* rules_for on a group whose parent has the group as its parent, and another
\* group that is its own parent.
C4_Witness ==
    /\ last.op = "rules_for"
    /\ group_exists(groups, last.group)
    /\ ChainReturns(last.group)
    /\ unwrap(groups[last.group + 1].parent_index) # last.group
    /\ \E g \in 1..Len(groups) : groups[g].parent_index = Some(g - 1)
    /\ last.outcome = "CycleInParents"

\* C5: rules_for(g) terminates for every existing group g: with a rule list
\* when the parent chain from g ends, with the cycle failure when the chain
\* runs into a cycle of parent links, through g or not.
C5_TerminatesOnEveryCycle ==
    (last.op = "rules_for" /\ group_exists(groups, last.group)) =>
        /\ last.outcome # "diverges"
        /\ ChainEnds(last.group) => last.outcome = "ok"
        /\ ChainCycles(last.group) => last.outcome = "CycleInParents"

\* ------------------------------------------- the epsilon-closure specification
\* An NFA built by hand: new_state, connect and connect_via in any order,
\* then eps_matrix.
StateIds == 0..(Len(hnfa.states) - 1)

RECURSIVE CountLinks(_, _)
CountLinks(states, i) ==
    IF i > Len(states) THEN 0
    ELSE Len(states[i].epsilon_links) + Len(states[i].links) + CountLinks(states, i + 1)

EpsNewState ==
    /\ eps_mat = None
    /\ Len(hnfa.states) < MaxStates
    /\ hnfa' = new_state(hnfa).nfa
    /\ UNCHANGED << groups, last, data, dfa, dfa_eps_ixs, divisions, inserts, eps_mat >>

EpsConnect(source, target) ==
    /\ eps_mat = None
    /\ CountLinks(hnfa.states, 1) < MaxEps
    /\ hnfa' = connect(hnfa, source, target)
    /\ UNCHANGED << groups, last, data, dfa, dfa_eps_ixs, divisions, inserts, eps_mat >>

\* A symbol link; at most one per source state.
EpsConnectVia(source, target_state) ==
    /\ eps_mat = None
    /\ CountLinks(hnfa.states, 1) < MaxEps
    /\ hnfa.states[source + 1].links = << >>
    /\ hnfa' = connect_via(hnfa, source, target_state, 97, 97)
    /\ UNCHANGED << groups, last, data, dfa, dfa_eps_ixs, divisions, inserts, eps_mat >>

EpsMatrix ==
    /\ eps_mat = None
    /\ eps_mat' = Some(eps_matrix(hnfa))
    /\ UNCHANGED << groups, last, data, dfa, dfa_eps_ixs, divisions, inserts, hnfa >>

NextEps ==
    \/ EpsNewState
    \/ \E source \in StateIds, target \in StateIds : EpsConnect(source, target)
    \/ \E source \in StateIds, target \in StateIds : EpsConnectVia(source, target)
    \/ EpsMatrix

SpecEps == Init /\ [][NextEps]_vars

\* The states reachable from the states of S by zero or more epsilon links:
\* the least set that holds S and is closed under epsilon links.
RECURSIVE EpsReachIn(_, _)
EpsReachIn(nfa, S) ==
    LET EpsTargets(s) ==
            {nfa.states[s + 1].epsilon_links[j] :
                j \in 1..Len(nfa.states[s + 1].epsilon_links)}
        T == S \cup UNION {EpsTargets(s) : s \in S}
    IN IF T = S THEN S ELSE EpsReachIn(nfa, T)

EpsReach(S) == EpsReachIn(hnfa, S)

\* C6: for every state s of an NFA, eps_matrix()[s] is the set of the states
\* reachable from s by zero or more epsilon links: s itself, every reachable
\* state and no other.
C6_EpsMatrixIsClosure ==
    is_some(eps_mat) =>
        /\ Len(unwrap(eps_mat)) = Len(hnfa.states)
        /\ \A s \in StateIds : unwrap(eps_mat)[s + 1] = EpsReach({s})

\* The closures of three states: two on an epsilon cycle that reach the third,
\* the third with a symbol link to the cycle and the closure {itself}.
C6_Witness ==
    /\ is_some(eps_mat)
    /\ Len(hnfa.states) = 3
    /\ \E s \in StateIds, t \in StateIds, u \in StateIds :
          /\ s # t
          /\ unwrap(eps_mat)[s + 1] = {0, 1, 2}
          /\ unwrap(eps_mat)[t + 1] = {0, 1, 2}
          /\ unwrap(eps_mat)[u + 1] = {u}
          /\ hnfa.states[u + 1].links # << >>

\* ------------------------------------------------------ the compiled DFA
\* The NFA the last DFA::from call was given.
CompiledNfa == named_automaton(unwrap(data))

\* The named states of the NFA set of DFA row `row`.
NamedIn(row) ==
    {s \in dfa_eps_ixs[row + 1] : is_some(CompiledNfa.states[s + 1].name)}

\* C7: a DFA made by DFA::from has the segmentation of its NFA, a matrix of
\* at least one row and one column per division, one callbacks entry per
\* row, cells that are INVALID or the index of a row, and a row 0 that stands
\* for the epsilon closure of NFA state 0.
C7_DfaShape ==
    is_some(dfa) =>
        LET d == unwrap(dfa)
        IN /\ d.alphabet_segmentation = CompiledNfa.alphabet_segmentation
           /\ Len(d.links) >= 1
           /\ \A row \in Rows : Len(d.links[row + 1]) = len(d.alphabet_segmentation)
           /\ Len(d.callbacks) = Len(d.links)
           /\ Len(dfa_eps_ixs) = Len(d.links)
           /\ \A row \in Rows : \A col \in 1..Len(d.links[row + 1]) :
                 \/ d.links[row + 1][col] = INVALID
                 \/ d.links[row + 1][col] \in Rows
           /\ dfa_eps_ixs[1] = EpsReachIn(CompiledNfa, {0})

\* A DFA of three rows or more and three columns or more, with an INVALID
\* cell, a cell that leads to the last row, and a closure of state 0 of more
\* than two states.
C7_Witness ==
    /\ is_some(dfa)
    /\ Len(unwrap(dfa).links) >= 3
    /\ len(unwrap(dfa).alphabet_segmentation) >= 3
    /\ \E row \in Rows : \E col \in 1..Len(unwrap(dfa).links[row + 1]) :
          unwrap(dfa).links[row + 1][col] = INVALID
    /\ \E row \in Rows : \E col \in 1..Len(unwrap(dfa).links[row + 1]) :
          unwrap(dfa).links[row + 1][col] = Len(unwrap(dfa).links) - 1
    /\ Cardinality(dfa_eps_ixs[1]) > 2

\* The state ids has_rule_for is asked about: the rows, ids past the last
\* row, and INVALID.
AskedIds == 0..(Len(unwrap(dfa).links) + 2) \cup {INVALID}

\* C8: callbacks[d] is present exactly when the NFA set of row d holds a
\* named state, and is then bound to the named state of smallest id (its code
\* is that state's name); has_rule_for is true exactly for the indices of
\* rows with a callback, false for INVALID and for ids out of range.
C8_AcceptLabelling ==
    is_some(dfa) =>
        LET d == unwrap(dfa)
        IN /\ \A row \in Rows :
                 /\ is_some(d.callbacks[row + 1]) <=> NamedIn(row) # {}
                 /\ NamedIn(row) # {} =>
                       \E s \in NamedIn(row) :
                           /\ \A t \in NamedIn(row) : s <= t
                           /\ unwrap(d.callbacks[row + 1]).code
                                  = unwrap(CompiledNfa.states[s + 1].name)
           /\ \A s \in AskedIds :
                 has_rule_for(d, s) <=> (s \in Rows /\ is_some(d.callbacks[s + 1]))

\* A DFA with a row without a callback, a row whose set holds one named
\* state and a row whose set holds two.
C8_Witness ==
    /\ is_some(dfa)
    /\ \E row \in Rows : NamedIn(row) = {}
    /\ \E row \in Rows : Cardinality(NamedIn(row)) = 1 /\ has_rule_for(unwrap(dfa), row)
    /\ \E row \in Rows : Cardinality(NamedIn(row)) = 2 /\ has_rule_for(unwrap(dfa), row)

\* C9: every callback of a DFA made by DFA::from has the same priority, the
\* number of rows of the DFA.
C9_PriorityIsRowCount ==
    is_some(dfa) =>
        \A row \in Rows :
            is_some(unwrap(dfa).callbacks[row + 1]) =>
                unwrap(unwrap(dfa).callbacks[row + 1]).priority = Len(unwrap(dfa).links)

\* A DFA of three rows, two of them with a callback bound to different rules.
C9_Witness ==
    /\ is_some(dfa)
    /\ Len(unwrap(dfa).links) = 3
    /\ \E r1 \in Rows, r2 \in Rows :
          /\ r1 < r2
          /\ is_some(unwrap(dfa).callbacks[r1 + 1])
          /\ is_some(unwrap(dfa).callbacks[r2 + 1])
          /\ unwrap(unwrap(dfa).callbacks[r1 + 1]).code
                # unwrap(unwrap(dfa).callbacks[r2 + 1]).code
          /\ unwrap(unwrap(dfa).callbacks[r2 + 1]).priority = 3

\* ------------------------------------------- the segmentation specification
\* A segmentation made by default() (the initial state) or by from_divisions
\* of any list, then insert calls with any ranges, inverted ones included.
SegSymbols == {NULL, 1, 97, 98, EOF_CODE - 1, EOF_CODE}

RECURSIVE ListsUpTo(_)
ListsUpTo(n) ==
    IF n = 0 THEN {<< >>}
    ELSE LET shorter == ListsUpTo(n - 1)
         IN shorter \cup {Append(l, x) : l \in shorter, x \in SegSymbols}

SegFromDivisions(list) ==
    /\ last.op = "none"
    /\ inserts = 0
    /\ divisions' = from_divisions(list)
    /\ last' = [NoCall EXCEPT !.op = "from_divisions"]
    /\ UNCHANGED << groups, data, dfa, dfa_eps_ixs, inserts, hnfa, eps_mat >>

\* last keeps the constructor in op and takes the range of the insert.
SegInsert(lo, hi) ==
    /\ inserts < MaxInserts
    /\ divisions' = insert(divisions, lo, hi)
    /\ inserts' = inserts + 1
    /\ last' = [last EXCEPT !.lo = lo, !.hi = hi]
    /\ UNCHANGED << groups, data, dfa, dfa_eps_ixs, hnfa, eps_mat >>

NextSeg ==
    \/ \E list \in ListsUpTo(MaxDivisions) : SegFromDivisions(list)
    \/ \E lo \in SegSymbols, hi \in SegSymbols : SegInsert(lo, hi)

SpecSeg == Init /\ [][NextSeg]_vars

\* The division set holds 0, len() is at least 1, and divisions_as_vec()
\* lists every division once, in strictly ascending order, at positions
\* 0, 1, ..., len() - 1.
SegmentationWellFormed ==
    LET v == divisions_as_vec(divisions)
    IN /\ NULL \in divisions
       /\ len(divisions) >= 1
       /\ Len(v) = len(divisions)
       /\ {v[i].symbol : i \in 1..Len(v)} = divisions
       /\ \A i \in 1..Len(v) : v[i].position = i - 1
       /\ \A i \in 1..(Len(v) - 1) : v[i].symbol < v[i + 1].symbol

\* C10: after default() or from_divisions(any list) and any insert calls the
\* division set holds 0 and len() >= 1, divisions_as_vec() is strictly
\* ascending with positions 0..len()-1, and no operation removes a division.
C10_SegmentationInvariant ==
    /\ []SegmentationWellFormed
    /\ [][divisions \subseteq divisions']_vars

\* A segmentation made by from_divisions and grown by two inserts or more to
\* five divisions, EOF_CODE among them.
C10_Witness ==
    /\ last.op = "from_divisions"
    /\ inserts >= 2
    /\ len(divisions) >= 5
    /\ EOF_CODE \in divisions

\* C11: insert(lo..=hi) makes the division set the old set plus lo plus, when
\* hi is not EOF_CODE, hi + 1; when hi is EOF_CODE no sum is computed, so no
\* value beyond EOF_CODE arises or wraps to 0; every old division is kept.
C11_InsertExact ==
    [][inserts' = inserts + 1 =>
         /\ divisions' = (divisions \cup {last'.lo})
                            \cup (IF last'.hi # EOF_CODE THEN {last'.hi + 1} ELSE {})
         /\ last'.hi = EOF_CODE => ~is_some(end_division(last'.hi))
         /\ is_some(end_division(last'.hi)) => unwrap(end_division(last'.hi)) <= EOF_CODE
         /\ \A d \in divisions' : NULL <= d /\ d <= EOF_CODE
         /\ divisions \subseteq divisions']_vars

\* insert(97..=97) made the set {0, 97, 98}; insert(98..=EOF_CODE) then left
\* it as it was.
C11_Witness ==
    /\ inserts = 2
    /\ last.lo = 98
    /\ last.hi = EOF_CODE
    /\ divisions = {NULL, 97, 98}

\* ------------------------------------------------- Always and Never rules
\* The compiled group has the one rule `pattern`, its own or inherited.
SingleRule(pattern) ==
    /\ is_some(dfa)
    /\ Len(last.rules) = 1
    /\ last.rules[1].pattern = pattern

AllInvalid(row) ==
    \A col \in 1..Len(unwrap(dfa).links[row + 1]) :
        unwrap(dfa).links[row + 1][col] = INVALID

\* The statement of C12 as written: a group with the single rule Always
\* compiles to a DFA of one row, all cells INVALID, with no callback bound.
C12_Original ==
    SingleRule(Always) =>
        /\ Len(unwrap(dfa).links) = 1
        /\ AllInvalid(0)
        /\ \A row \in Rows : ~is_some(unwrap(dfa).callbacks[row + 1])

\* C12 (amended): a group with the single rule Always compiles to a DFA of
\* one row, all cells INVALID; that row is bound to the callback of the rule,
\* whose named accepting state is in the epsilon closure of the start state.
C12_AlwaysDfa ==
    SingleRule(Always) =>
        /\ Len(unwrap(dfa).links) = 1
        /\ AllInvalid(0)
        /\ AcceptState(0) \in dfa_eps_ixs[1]
        /\ BoundTo(0, 0)
        /\ has_rule_for(unwrap(dfa), 0)

\* The DFA of a group with the single rule Always.
C12_Witness ==
    /\ SingleRule(Always)
    /\ unwrap(dfa).links = << << INVALID >> >>

\* The pattern is Always or is made of Always alone: a Seq of such patterns
\* (the empty Seq too), an Or of one or more of them, a Many of one.
RECURSIVE ReducesToAlways(_)
ReducesToAlways(p) ==
    CASE p.tag = "Always" -> TRUE
      [] p.tag = "Seq" -> \A i \in 1..Len(p.elems) : ReducesToAlways(p.elems[i])
      [] p.tag = "Or" ->
            /\ Len(p.elems) >= 1
            /\ \A i \in 1..Len(p.elems) : ReducesToAlways(p.elems[i])
      [] p.tag = "Many" -> ReducesToAlways(p.elems[1])
      [] OTHER -> FALSE

\* C13: in the NFA built by to_nfa_from, the state named after a rule whose
\* pattern is Always or reduces to Always is in the epsilon closure of the
\* start state, so DFA row 0 holds a named accepting state for that rule.
C13_AlwaysInStartClosure ==
    is_some(data) =>
        \A i \in RulePositions :
            ReducesToAlways(last.rules[i + 1].pattern) =>
                /\ AcceptState(i) \in EpsReachIn(CompiledNfa, {unwrap(data).start})
                /\ CompiledNfa.states[AcceptState(i) + 1].name
                      = Some(callback_name(CompiledGroup, i))
                /\ is_some(dfa) =>
                      /\ AcceptState(i) \in dfa_eps_ixs[1]
                      /\ is_some(unwrap(dfa).callbacks[1])

\* A DFA of three rules, the second one Always after a first rule that needs
\* a symbol: row 0 holds the state named after the second rule and is bound
\* to it.
C13_Witness ==
    /\ is_some(dfa)
    /\ Len(last.rules) = 3
    /\ last.rules[1].pattern = a
    /\ last.rules[2].pattern = Always
    /\ AcceptState(1) \in dfa_eps_ixs[1]
    /\ BoundTo(0, 1)

\* The states reachable from the states of S by links of any kind, epsilon
\* links and symbol links.
RECURSIVE ReachIn(_, _)
ReachIn(nfa, S) ==
    LET Targets(s) ==
            {nfa.states[s + 1].epsilon_links[j] :
                j \in 1..Len(nfa.states[s + 1].epsilon_links)}
            \cup {nfa.states[s + 1].links[j].target_state :
                    j \in 1..Len(nfa.states[s + 1].links)}
        T == S \cup UNION {Targets(s) : s \in S}
    IN IF T = S THEN S ELSE ReachIn(nfa, T)

\* C14: a group with the single rule Never compiles to a DFA of one row, all
\* cells INVALID; the state named after the rule is in no DFA state and no
\* callback is bound.  The end state new_pattern returns for Never, from any
\* source state, is not reachable from the start state.
C14_NeverDfa ==
    /\ SingleRule(Never) =>
          /\ Len(unwrap(dfa).links) = 1
          /\ AllInvalid(0)
          /\ \A row \in Rows :
                /\ AcceptState(0) \notin dfa_eps_ixs[row + 1]
                /\ ~is_some(unwrap(dfa).callbacks[row + 1])
    /\ is_some(data) =>
          /\ \A i \in RulePositions :
                last.rules[i + 1].pattern = Never =>
                    AcceptState(i) \notin ReachIn(CompiledNfa, {unwrap(data).start})
          /\ \A source \in 0..(Len(CompiledNfa.states) - 1) :
                LET r == new_pattern(CompiledNfa, source, Never)
                IN /\ r.id = Len(CompiledNfa.states) + 1
                   /\ r.id \notin ReachIn(r.nfa, {unwrap(data).start})

\* The DFA of a group with the single rule Never.
C14_Witness ==
    /\ SingleRule(Never)
    /\ unwrap(dfa).links = << << INVALID >> >>
    /\ unwrap(dfa).callbacks = << None >>
    /\ CompiledNfa.states[AcceptState(0) + 1].name = Some(callback_name(CompiledGroup, 0))

\* ------------------------------------------------ the pattern specification
\* Patterns built with | and >> from the operands below and from the pattern
\* the last operator returned.
OperandPool ==
    { a,
      Many(b),
      Or(<< >>),
      Seq_(<< >>),
      Or(<< a, b >>),
      Seq_(<< a, b >>),
      Or(<< Or(<< a >>), b >>),
      Seq_(<< Seq_(<< a >>), b >>) }

Operands == OperandPool \cup (IF is_some(last.result) THEN {unwrap(last.result)} ELSE {})

RECURSIVE PatNodes(_), SumNodes(_, _)
PatNodes(p) == 1 + SumNodes(p.elems, 1)

SumNodes(ps, i) == IF i > Len(ps) THEN 0 ELSE PatNodes(ps[i]) + SumNodes(ps, i + 1)

PatBitOr(lhs, rhs) ==
    /\ PatNodes(bitor(lhs, rhs)) <= MaxNodes
    /\ last' = [NoCall EXCEPT !.op = "bitor", !.patterns = << lhs, rhs >>,
                              !.result = Some(bitor(lhs, rhs))]
    /\ UNCHANGED << groups, data, dfa, dfa_eps_ixs, divisions, inserts, hnfa, eps_mat >>

PatShr(lhs, rhs) ==
    /\ PatNodes(shr(lhs, rhs)) <= MaxNodes
    /\ last' = [NoCall EXCEPT !.op = "shr", !.patterns = << lhs, rhs >>,
                              !.result = Some(shr(lhs, rhs))]
    /\ UNCHANGED << groups, data, dfa, dfa_eps_ixs, divisions, inserts, hnfa, eps_mat >>

NextPattern ==
    \/ \E lhs \in Operands, rhs \in Operands : PatBitOr(lhs, rhs)
    \/ \E lhs \in Operands, rhs \in Operands : PatShr(lhs, rhs)

SpecPattern == Init /\ [][NextPattern]_vars

\* No node of p with the tag has a direct child with the same tag.
RECURSIVE FlatFor(_, _)
FlatFor(tag, p) ==
    /\ p.tag = tag => \A i \in 1..Len(p.elems) : p.elems[i].tag # tag
    /\ \A i \in 1..Len(p.elems) : FlatFor(tag, p.elems[i])

\* The elements of p when p has the tag, p itself otherwise.
ElemsFor(tag, p) == IF p.tag = tag THEN p.elems ELSE << p >>

\* C16: for patterns x, y, z without an Or directly in an Or, x | y is the Or
\* of the elements of x (x itself when it is not an Or) followed by those of
\* y, has no Or directly in an Or, and (x | y) | z = x | (y | z); the same
\* for >> and Seq.
C16_OperatorsFlatten ==
    \A x \in Operands, y \in Operands, z \in Operands :
        (last.result \in {None, Some(x), Some(y), Some(z)}) =>
            /\ (FlatFor("Or", x) /\ FlatFor("Or", y) /\ FlatFor("Or", z)) =>
                  /\ bitor(x, y) = Or(ElemsFor("Or", x) \o ElemsFor("Or", y))
                  /\ FlatFor("Or", bitor(x, y))
                  /\ bitor(bitor(x, y), z) = bitor(x, bitor(y, z))
            /\ (FlatFor("Seq", x) /\ FlatFor("Seq", y) /\ FlatFor("Seq", z)) =>
                  /\ shr(x, y) = Seq_(ElemsFor("Seq", x) \o ElemsFor("Seq", y))
                  /\ FlatFor("Seq", shr(x, y))
                  /\ shr(shr(x, y), z) = shr(x, shr(y, z))

\* The operator | applied to a pattern that is not an Or and an Or built by
\* an earlier |: the result lists the left operand first.
C16_Witness ==
    /\ last.op = "bitor"
    /\ last.patterns[1] = Many(b)
    /\ last.patterns[2].tag = "Or"
    /\ last.patterns[2] \notin OperandPool
    /\ FlatFor("Or", last.patterns[2])
    /\ Len(unwrap(last.result).elems) = 3
    /\ unwrap(last.result).elems[1] = Many(b)

\* ------------------------------------------------------------ group ids
\* Every stored group has its index as id.
IdsAreIndexes == \A k \in 0..(Len(groups) - 1) : groups[k + 1].id = k

\* C17: the k-th define_group or add_group call returns k, the group stored
\* at index k has id k whatever id the supplied group carried, the new group
\* is put after the groups stored before, and those are left as they were.
C17_SequentialIds ==
    /\ []IdsAreIndexes
    /\ [][last'.op \in {"define_group", "add_group"} =>
            /\ last'.id = Len(groups)
            /\ \E parent_index \in ParentIndexes :
                  groups' = Append(groups, Group_new(Len(groups), "group", parent_index))
            /\ \A k \in 0..(Len(groups) - 1) : groups'[k + 1] = groups[k + 1]]_vars

\* The third call is an add_group, handed a group with another id, made
\* after a rule was added to the first group.
C17_Witness ==
    /\ last.op = "add_group"
    /\ last.id = 2
    /\ Len(groups) = 3
    /\ groups[3].id = 2
    /\ groups[3].parent_index = Some(2)
    /\ groups[1].rules # << >>

\* ------------------------------------------------- calls with unknown groups
\* Following parent links from g ends at a group whose parent is not stored.
ChainDangles(g) ==
    LET chain == ParentChain(g, Len(groups))
        end == groups[chain[Len(chain)] + 1]
    IN /\ Len(chain) <= Len(groups)
       /\ is_some(end.parent_index)
       /\ ~group_exists(groups, unwrap(end.parent_index))

\* C18: create_rule, add_rule, rules_for and to_nfa_from with a group id that
\* is not below the number of groups, and rules_for on a group whose chain
\* of parents names such an id, fail, return nothing and leave every group
\* as it was.
C18_UnknownGroupAborts ==
    [][/\ (/\ last'.op \in {"create_rule", "add_rule", "rules_for", "to_nfa_from"}
            /\ last'.group >= Len(groups)) =>
              /\ last'.outcome = "UnknownGroup"
              /\ groups' = groups
              /\ last'.rules = << >>
              /\ last'.result = None
       /\ (/\ last'.op = "rules_for"
            /\ last'.group < Len(groups)
            /\ ChainDangles(last'.group)) =>
              /\ last'.outcome = "UnknownGroup"
              /\ groups' = groups
              /\ last'.rules = << >>]_vars

\* rules_for on group 0, which has a rule and whose parent, group 1, names
\* group 2 that was never stored.
C18_Witness ==
    /\ last.op = "rules_for"
    /\ last.group = 0
    /\ last.outcome = "UnknownGroup"
    /\ Len(groups) = 2
    /\ groups[1].parent_index = Some(1)
    /\ groups[2].parent_index = Some(2)
    /\ groups[1].rules # << >>

\* ------------------------------------------- the names given by to_nfa_from
\* The state right after to_nfa_from(last.group) returned an automaton.
Compiled == last.op = "to_nfa_from" /\ last.outcome = "ok" /\ is_some(last.result)

\* The accepting state of the rule at position i (from 0) of rules_for, and
\* the end state: the public states are start, the rules' states, end.
RuleState(i) == unwrap(last.result).states[i + 2]

EndState == unwrap(last.result).states[Len(unwrap(last.result).states)]

NameOf(state) == map_get(unwrap(last.result).transition_names, state)

CodeOf(state) == map_get(unwrap(last.result).callback_code, state)

\* The group that holds the rule and the rule's index in that group; every
\* rule of the registry specification has a callback of its own.
OwnerOf(rule) ==
    CHOOSE k \in 0..(Len(groups) - 1) :
        \E j \in 1..Len(groups[k + 1].rules) : groups[k + 1].rules[j] = rule

IndexInOwner(rule) ==
    CHOOSE j \in 0..(Len(groups[OwnerOf(rule) + 1].rules) - 1) :
        groups[OwnerOf(rule) + 1].rules[j + 1] = rule

\* The code, the distinct names, and the links to one unnamed end state.
CodesAndEnd ==
    /\ Len(unwrap(last.result).states) = Len(last.rules) + 2
    /\ \A i \in 0..(Len(last.rules) - 1) :
          /\ CodeOf(RuleState(i)) = Some(last.rules[i + 1].callback)
          /\ \E k \in 1..Len(unwrap(last.result).automaton.states[RuleState(i) + 1].epsilon_links) :
                unwrap(last.result).automaton.states[RuleState(i) + 1].epsilon_links[k] = EndState
          /\ RuleState(i) # EndState
          /\ \A j \in 0..(Len(last.rules) - 1) :
                i # j => /\ RuleState(i) # RuleState(j)
                         /\ NameOf(RuleState(i)) # NameOf(RuleState(j))
    /\ NameOf(EndState) = None

\* C19 as stated: the name of the rule at position i of rules_for(g) is made
\* of the id of the group that holds the rule, with the rule's index read
\* either as i or as its index in that group.
C19_Original ==
    Compiled =>
        /\ CodesAndEnd
        /\ \A i \in 0..(Len(last.rules) - 1) :
              LET rule == last.rules[i + 1]
              IN \/ NameOf(RuleState(i)) = Some(<< "group", OwnerOf(rule), "rule", i >>)
                 \/ NameOf(RuleState(i)) =
                        Some(<< "group", OwnerOf(rule), "rule", IndexInOwner(rule) >>)

\* C19, amended: the name of the rule at position i of rules_for(g) is
\* group_<g>_rule_<i>, g being the group handed to to_nfa_from, also for a
\* rule that comes from a parent; its state carries that rule's code; the
\* names are distinct; each rule's state has an epsilon link to the one end
\* state, which has no name.
C19_NamedAfterCompiledGroup ==
    Compiled =>
        /\ CodesAndEnd
        /\ \A i \in 0..(Len(last.rules) - 1) :
              NameOf(RuleState(i)) = Some(<< "group", last.group, "rule", i >>)

\* Group 1 with one rule of its own and one from its parent, group 0.
C19_Witness ==
    /\ Compiled
    /\ last.group = 1
    /\ Len(last.rules) = 2
    /\ OwnerOf(last.rules[1]) = 1
    /\ OwnerOf(last.rules[2]) = 0
    /\ NameOf(RuleState(1)) = Some(<< "group", 1, "rule", 1 >>)

\* ------------------------------------------------- the rules 'a' and 'a' 'b'
\* Group 0, alone in the registry, with the rules 'a' and 'a' >> 'b', was
\* compiled to a DFA.
SimpleRules ==
    /\ is_some(dfa)
    /\ last.group = 0
    /\ Len(groups) = 1
    /\ Len(groups[1].rules) = 2
    /\ groups[1].rules[1].pattern = a
    /\ groups[1].rules[2].pattern = shr(a, b)

\* C20: for group 0 with the rules 'a' and 'a' followed by 'b' the DFA has
\* the divisions {0, 97, 98, 99}, the three rows below, no callback on row 0,
\* the callback group_0_rule_0 on row 1 and group_0_rule_1 on row 2.
C20_SimpleRulesDfa ==
    SimpleRules =>
        LET d == unwrap(dfa)
        IN /\ d.alphabet_segmentation = {0, 97, 98, 99}
           /\ d.links = << << INVALID, 1, INVALID, INVALID >>,
                           << INVALID, INVALID, 2, INVALID >>,
                           << INVALID, INVALID, INVALID, INVALID >> >>
           /\ Len(d.callbacks) = 3
           /\ d.callbacks[1] = None
           /\ is_some(d.callbacks[2])
           /\ unwrap(d.callbacks[2]).code = << "group", 0, "rule", 0 >>
           /\ is_some(d.callbacks[3])
           /\ unwrap(d.callbacks[3]).code = << "group", 0, "rule", 1 >>

C20_Witness ==
    /\ SimpleRules
    /\ Len(unwrap(dfa).links) = 3
    /\ unwrap(dfa).links[2][3] = 2

\* ------------------------------------------------------ the complex rules
\* Group 0, alone in the registry, with the rules of tests::complex_rules,
\* was compiled to a DFA.
ComplexCompiled ==
    /\ is_some(dfa)
    /\ last.group = 0
    /\ Len(groups) = 1
    /\ Len(groups[1].rules) = Len(ComplexRules)
    /\ IsPrefix(groups[1].rules, ComplexRules)

\* C21: the rules space 'a'+, space 'b'+, EOF, any give the divisions
\* {0, 32, 33, 97, 98, 99, EOF} and the eight rows of dfa_complex_rules, and
\* the row reached on EOF is bound to the EOF rule, rule 2, not to rule 3.
C21_ComplexRulesDfa ==
    ComplexCompiled =>
        LET d == unwrap(dfa)
            X == INVALID
        IN /\ d.alphabet_segmentation = {0, 32, 33, 97, 98, 99, EOF_CODE}
           /\ d.links = << << 1, 2, 1, 1, 1, 1, 3 >>,
                           << X, X, X, X, X, X, X >>,
                           << X, X, X, 4, 5, X, X >>,
                           << X, X, X, X, X, X, X >>,
                           << X, X, X, 6, X, X, X >>,
                           << X, X, X, X, 7, X, X >>,
                           << X, X, X, 6, X, X, X >>,
                           << X, X, X, X, 7, X, X >> >>
           /\ RulesIn(3) = {2, 3}
           /\ BoundTo(3, 2)
           /\ ~BoundTo(3, 3)
           /\ BoundTo(1, 3)

C21_Witness ==
    /\ ComplexCompiled
    /\ Len(unwrap(dfa).links) = 8
    /\ unwrap(dfa).links[1][7] = 3

\* ------------------------------------------- the none_of specification
\* One call of none_of_codes with any list of codes, the empty list, unsorted
\* lists and lists with repetitions included, or of none_of with any
\* characters.
CodePool == {NULL, 1, 97, 98, EOF_CODE - 1, EOF_CODE}

RECURSIVE CodesUpTo(_, _)
CodesUpTo(pool, n) ==
    IF n = 0 THEN {<< >>}
    ELSE LET shorter == CodesUpTo(pool, n - 1)
         IN shorter \cup {Append(l, x) : l \in shorter, x \in pool}

NoneOfCodes(codes) ==
    /\ last.op = "none"
    /\ LET r == none_of_codes(codes)
       IN last' = [NoCall EXCEPT !.op = "none_of_codes", !.codes = codes,
                                 !.outcome = r.outcome, !.overflow = r.overflow,
                                 !.result = IF r.outcome = "ok" THEN Some(r.pattern)
                                            ELSE None]
    /\ UNCHANGED << groups, data, dfa, dfa_eps_ixs, divisions, inserts, hnfa, eps_mat >>

\* A character is never EOF_CODE: char stops below u32::max_value().
NoneOf(chars) ==
    /\ last.op = "none"
    /\ LET r == none_of(chars)
       IN last' = [NoCall EXCEPT !.op = "none_of", !.codes = chars,
                                 !.outcome = r.outcome, !.overflow = r.overflow,
                                 !.result = IF r.outcome = "ok" THEN Some(r.pattern)
                                            ELSE None]
    /\ UNCHANGED << groups, data, dfa, dfa_eps_ixs, divisions, inserts, hnfa, eps_mat >>

NextNoneOf ==
    \/ \E codes \in CodesUpTo(CodePool, MaxCodes) : NoneOfCodes(codes)
    \/ \E chars \in CodesUpTo(CodePool \ {EOF_CODE}, MaxCodes) : NoneOf(chars)

SpecNoneOf == Init /\ [][NextNoneOf]_vars

Symbols == NULL..EOF_CODE

Listed(codes) == {codes[i] : i \in 1..Len(codes)}

\* C22: none_of_codes(codes) returns for every list of codes, and the
\* pattern it returns matches one symbol exactly when the symbol is not in
\* codes; none_of(chars) matches one symbol exactly when it is not in chars
\* and is neither NULL nor EOF; no addition or subtraction overflows.
C22_NoneOfTotal ==
    /\ last.op = "none_of_codes" =>
          /\ last.outcome = "ok"
          /\ ~last.overflow
          /\ \A s \in Symbols :
                Matches(unwrap(last.result), << s >>) <=> s \notin Listed(last.codes)
    /\ last.op = "none_of" =>
          /\ last.outcome = "ok"
          /\ ~last.overflow
          /\ \A s \in Symbols :
                Matches(unwrap(last.result), << s >>)
                    <=> s \notin Listed(last.codes) \cup {NULL, EOF_CODE}

\* ------------------------------------------------- the subset construction
\* The states of the set of DFA row d with a transition in column c (from 0),
\* and the union of the epsilon closures of the targets of these transitions.
Movers(nfa_mat, d, c) == {s \in dfa_eps_ixs[d + 1] : nfa_mat[s + 1][c + 1] # INVALID}

Moved(nfa_mat, eps_m, d, c) ==
    UNION {eps_m[nfa_mat[s + 1][c + 1] + 1] : s \in Movers(nfa_mat, d, c)}

Columns == 0..(len(unwrap(dfa).alphabet_segmentation) - 1)

\* C23: the cell of DFA row d and column c is INVALID exactly when no state
\* of the row's NFA set has a target in column c of nfa_matrix; otherwise it
\* is the id of the one row whose set is the union of the eps_matrix entries
\* of these targets.
C23_SubsetStep ==
    is_some(dfa) =>
        LET nfa_mat == nfa_matrix(CompiledNfa)
            eps_m == eps_matrix(CompiledNfa)
        IN \A d \in Rows : \A c \in Columns :
              LET cell == unwrap(dfa).links[d + 1][c + 1]
              IN /\ cell = INVALID <=> Movers(nfa_mat, d, c) = {}
                 /\ cell # INVALID =>
                       /\ cell \in Rows
                       /\ \A r \in Rows :
                             dfa_eps_ixs[r + 1] = Moved(nfa_mat, eps_m, d, c) <=> r = cell

\* A cell made from two states of a row that move in the same column, into
\* a set larger than the set of their targets.
C23_Witness ==
    /\ is_some(dfa)
    /\ LET nfa_mat == nfa_matrix(CompiledNfa)
           eps_m == eps_matrix(CompiledNfa)
       IN \E d \in Rows : \E c \in Columns :
             /\ Cardinality(Movers(nfa_mat, d, c)) >= 2
             /\ Cardinality(Moved(nfa_mat, eps_m, d, c))
                    > Cardinality({nfa_mat[s + 1][c + 1] : s \in Movers(nfa_mat, d, c)})
             /\ unwrap(dfa).links[d + 1][c + 1] > d

\* --------------------------------------------- the targets specification
\* A segmentation made by from_divisions of any list, a state made from any
\* list of links (overlapping, inverted and equal ranges included), then
\* targets of the state over the segmentation.
LinkPool ==
    {Link_new(r[1], r[2], t) :
        r \in {<< NULL, 97 >>, << 1, 98 >>, << 1, EOF_CODE - 1 >>, << 97, 97 >>,
               << 98, 97 >>, << 98, EOF_CODE >>},
        t \in {1, 2}}

RECURSIVE LinksUpTo(_)
LinksUpTo(n) ==
    IF n = 0 THEN {<< >>}
    ELSE LET shorter == LinksUpTo(n - 1)
         IN shorter \cup {Append(l, x) : l \in shorter, x \in LinkPool}

TgtStateFrom(vec) ==
    /\ last.op # "targets"
    /\ hnfa.states = << >>
    /\ hnfa' = [hnfa EXCEPT !.states = << State_from(vec) >>]
    /\ UNCHANGED << groups, last, data, dfa, dfa_eps_ixs, divisions, inserts, eps_mat >>

TgtTargets ==
    /\ last.op # "targets"
    /\ Len(hnfa.states) = 1
    /\ last' = [NoCall EXCEPT !.op = "targets",
                              !.result = Some(targets(hnfa.states[1], divisions))]
    /\ UNCHANGED << groups, data, dfa, dfa_eps_ixs, divisions, inserts, hnfa, eps_mat >>

NextTargets ==
    \/ \E list \in ListsUpTo(MaxDivisions) : SegFromDivisions(list)
    \/ \E vec \in LinksUpTo(MaxLinks) : TgtStateFrom(vec)
    \/ TgtTargets

SpecTargets == Init /\ [][NextTargets]_vars

\* The k-th division in ascending order, k from 1.
Division(k) == CHOOSE d \in divisions : Cardinality({x \in divisions : x < d}) = k - 1

\* The positions of the links of the state whose range holds symbol d.
Holding(d) ==
    {i \in 1..Len(hnfa.states[1].links) :
        hnfa.states[1].links[i].start <= d /\ d <= hnfa.states[1].links[i].end}

\* The link of lowest start among them, the one given first among equals.
LowestStart(C) ==
    CHOOSE i \in C : \A j \in C :
        \/ hnfa.states[1].links[i].start < hnfa.states[1].links[j].start
        \/ /\ hnfa.states[1].links[i].start = hnfa.states[1].links[j].start
           /\ i <= j

\* C24: targets has one entry per division, in ascending order of the
\* divisions; the entry of division d is the target of the link of lowest
\* start whose range holds d, the first given among links of equal start,
\* and INVALID when no link holds d.
C24_TargetsByLowestStart ==
    last.op = "targets" =>
        LET t == unwrap(last.result)
        IN /\ Len(t) = Cardinality(divisions)
           /\ \A k \in 1..Len(t) :
                 IF Holding(Division(k)) = {} THEN t[k] = INVALID
                 ELSE t[k] = hnfa.states[1].links[LowestStart(Holding(Division(k)))].target_state

\* Two links of equal start that both hold a division, the first given wins;
\* another division is held by no link.
C24_Witness ==
    /\ last.op = "targets"
    /\ hnfa.states[1].links = << [start |-> 1, end |-> 98, target_state |-> 2],
                                 [start |-> 1, end |-> EOF_CODE - 1, target_state |-> 1] >>
    /\ divisions = {NULL, 97, EOF_CODE}
    /\ unwrap(last.result) = << INVALID, 2, INVALID >>

\* ------------------------------------------- the connect_via specification
\* An NFA whose symbol links are all made by connect_via, with any ranges:
\* overlapping, nested, inverted, up to EOF.
ViaRanges ==
    {<< NULL, 97 >>, << 1, 98 >>, << 1, EOF_CODE - 1 >>, << 97, 97 >>, << 98, 97 >>,
     << 98, EOF_CODE >>, << EOF_CODE, EOF_CODE >>, << NULL, EOF_CODE >>}

ViaConnectVia(source, lo, hi) ==
    /\ CountLinks(hnfa.states, 1) < MaxVia
    /\ hnfa' = connect_via(hnfa, source, 0, lo, hi)
    /\ last' = [NoCall EXCEPT !.op = "connect_via", !.lo = lo, !.hi = hi]
    /\ UNCHANGED << groups, data, dfa, dfa_eps_ixs, divisions, inserts, eps_mat >>

NextVia ==
    \/ EpsNewState
    \/ \E source \in StateIds, r \in ViaRanges : ViaConnectVia(source, r[1], r[2])

SpecVia == Init /\ [][NextVia]_vars

\* The last symbol of the interval that starts at division d.
IntervalEnd(segmentation, d) ==
    IF \E x \in segmentation : x > d
    THEN (CHOOSE x \in segmentation : x > d /\ \A y \in segmentation : y > d => x <= y) - 1
    ELSE EOF_CODE

\* C25: in an NFA whose symbol links were all made by connect_via, every
\* interval of the segmentation lies entirely inside or entirely outside the
\* range of every link of every state.
C25_IntervalsDoNotStraddle ==
    \A s \in StateIds : \A i \in 1..Len(hnfa.states[s + 1].links) :
        \A d \in hnfa.alphabet_segmentation :
            LET link == hnfa.states[s + 1].links[i]
                interval == d..IntervalEnd(hnfa.alphabet_segmentation, d)
                Inside(x) == link.start <= x /\ x <= link.end
            IN (\A x \in interval : Inside(x)) \/ (\A x \in interval : ~Inside(x))

\* Two links with overlapping ranges: the segmentation cuts at both starts
\* and after both ends.
C25_Witness ==
    /\ CountLinks(hnfa.states, 1) = 2
    /\ \E s \in StateIds : \E i \in 1..Len(hnfa.states[s + 1].links) :
          hnfa.states[s + 1].links[i].start = 1 /\ hnfa.states[s + 1].links[i].end = 98
    /\ last.lo = 97
    /\ last.hi = 97
    /\ hnfa.alphabet_segmentation = {NULL, 1, 97, 98, 99}

\* ------------------------------------------- the conversion specification
\* An NFA built by hand, with cycles of epsilon links, then DFA::from.
ConvNewState == Len(hnfa.states) < MaxConvStates /\ EpsNewState

ConvConnect(source, target) ==
    CountLinks(hnfa.states, 1) < MaxConvLinks /\ EpsConnect(source, target)

ConvConnectVia(source, target_state) ==
    CountLinks(hnfa.states, 1) < MaxConvLinks /\ EpsConnectVia(source, target_state)

\* DFA::from of the NFA built by hand; eps_matrix is its first step.  An
\* NFA without states has no eps_mat[0]: the index panics.
ConvDfaFrom ==
    /\ eps_mat = None
    /\ IF hnfa.states = << >>
       THEN /\ last' = [NoCall EXCEPT !.op = "dfa_from", !.outcome = "panic"]
            /\ UNCHANGED << dfa, dfa_eps_ixs, eps_mat >>
       ELSE /\ last' = [NoCall EXCEPT !.op = "dfa_from"]
            /\ eps_mat' = Some(eps_matrix(hnfa))
            /\ dfa' = Some(DFA_from(hnfa))
            /\ dfa_eps_ixs' = dfa_worklist(hnfa).dfa_eps_ixs
    /\ UNCHANGED << groups, data, divisions, inserts, hnfa >>

NextConv ==
    \/ ConvNewState
    \/ \E source \in StateIds, target \in StateIds : ConvConnect(source, target)
    \/ \E source \in StateIds, target \in StateIds : ConvConnectVia(source, target)
    \/ ConvDfaFrom

SpecConv == Init /\ [][NextConv]_vars

\* The lists of calls of fill_eps_matrix, one per starting state.
Entered == eps_matrix_run(hnfa).entered

\* C26: on an NFA with n states, cycles of epsilon links included, every run
\* of fill_eps_matrix from a starting state enters each state at most once,
\* so at most n calls; the worklist of DFA::from ends with at most 2^n - 1
\* rows, whose sets are non-empty and differ, and has made one matrix row
\* per set: each set was processed once.
C26_ConversionTerminates ==
    /\ is_some(eps_mat) =>
          /\ Len(Entered) = Len(hnfa.states)
          /\ \A id \in StateIds :
                /\ Len(Entered[id + 1]) <= Len(hnfa.states)
                /\ Entered[id + 1][1] = id
                /\ \A i \in 1..Len(Entered[id + 1]) : \A j \in 1..Len(Entered[id + 1]) :
                      i # j => Entered[id + 1][i] # Entered[id + 1][j]
    /\ is_some(dfa) =>
          /\ Len(dfa_eps_ixs) <= 2 ^ Len(hnfa.states) - 1
          /\ Len(unwrap(dfa).links) = Len(dfa_eps_ixs)
          /\ \A r \in 1..Len(dfa_eps_ixs) :
                /\ dfa_eps_ixs[r] # {}
                /\ dfa_eps_ixs[r] \subseteq StateIds
                /\ \A q \in 1..Len(dfa_eps_ixs) : q # r => dfa_eps_ixs[q] # dfa_eps_ixs[r]

\* An NFA with a cycle of epsilon links through states 0 and 1 and a symbol
\* link that leaves the cycle: two rows, each processed once.
C26_Witness ==
    /\ is_some(dfa)
    /\ Len(hnfa.states) = 3
    /\ 1 \in EpsReach({0}) /\ 0 \in EpsReach({1})
    /\ Len(Entered[1]) >= 2
    /\ Len(dfa_eps_ixs) = 2
    /\ unwrap(dfa).links[1][2] = 1

\* ------------------------------------------ the callback-code specification
\* An AutomatonData whose states get callback code by set_code, then
\* callback_for_state with any list of states, with and without code.
CodeStateIds == 0..(MaxCodeStates - 1)

CodeDefault ==
    /\ data = None
    /\ data' = Some(AutomatonData_default)
    /\ UNCHANGED << groups, last, dfa, dfa_eps_ixs, divisions, inserts, hnfa, eps_mat >>

CodeSetCode(state_id, code) ==
    /\ is_some(data)
    /\ last.op = "none"
    /\ data' = Some(set_code(unwrap(data), state_id, code))
    /\ UNCHANGED << groups, last, dfa, dfa_eps_ixs, divisions, inserts, hnfa, eps_mat >>

CodeCallbackForState(sources) ==
    /\ is_some(data)
    /\ last' = [NoCall EXCEPT !.op = "callback_for_state", !.codes = sources,
                              !.returned = callback_for_state(unwrap(data), sources)]
    /\ UNCHANGED << groups, data, dfa, dfa_eps_ixs, divisions, inserts, hnfa, eps_mat >>

NextCode ==
    \/ CodeDefault
    \/ \E state_id \in CodeStateIds, code \in {"x", "y"} : CodeSetCode(state_id, code)
    \/ \E sources \in CodesUpTo(CodeStateIds, MaxSources) : CodeCallbackForState(sources)

SpecCode == Init /\ [][NextCode]_vars

\* The positions of the sources that have callback code.
WithCode(sources) ==
    {i \in 1..Len(sources) : sources[i] \in DOMAIN unwrap(data).callback_code}

\* C27: callback_for_state returns the callback code of the first of the
\* sources that has code, and nothing exactly when no source has code.
C27_FirstCallbackCode ==
    last.op = "callback_for_state" =>
        LET with == WithCode(last.codes)
        IN IF with = {} THEN last.returned = None
           ELSE last.returned =
                    Some(unwrap(data).callback_code[
                        last.codes[CHOOSE i \in with : \A j \in with : i <= j]])

\* -------------------------------------------- the new_pattern specification
\* An NFA built as tests::NfaTest::make builds it: a start state and an end
\* state, then new_pattern calls, from the start state or from the state the
\* call before returned.  last.patterns lists the patterns of the calls so
\* far, last.id is the state the last call returned.
d == symbol(100)

NfaPool == PatternPool \cup {Or(<< a, d >>), Seq_(<< a, d >>)}

NfaNewState ==
    /\ Len(hnfa.states) < 2
    /\ hnfa' = new_state(hnfa).nfa
    /\ UNCHANGED << groups, last, data, dfa, dfa_eps_ixs, divisions, inserts, eps_mat >>

NfaNewPattern(source, pattern) ==
    /\ Len(hnfa.states) >= 2
    /\ \/ Len(last.patterns) < MaxPatterns /\ pattern \in NfaPool
       \/ /\ source = 0
          /\ Len(last.patterns) < Len(ComplexRules)
          /\ Append(last.patterns, pattern) = SubSeq(ComplexRules, 1, Len(last.patterns) + 1)
    /\ LET r == new_pattern(hnfa, source, pattern)
       IN /\ hnfa' = r.nfa
          /\ last' = [NoCall EXCEPT !.op = "new_pattern", !.source = source,
                                    !.patterns = Append(last.patterns, pattern),
                                    !.id = r.id]
    /\ UNCHANGED << groups, data, dfa, dfa_eps_ixs, divisions, inserts, eps_mat >>

NextNfa ==
    \/ NfaNewState
    \/ \E source \in {0, last.id},
          pattern \in NfaPool \cup {ComplexRules[i] : i \in 1..Len(ComplexRules)} :
           NfaNewPattern(source, pattern)

SpecNfa == Init /\ [][NextNfa]_vars

\* The number of states the claim gives for a pattern.
RECURSIVE size(_), SumSize(_, _)
size(p) ==
    CASE p.tag = "Range" -> 2
      [] p.tag = "Always" -> 1
      [] p.tag = "Never" -> 2
      [] p.tag = "Many" -> 3 + size(p.elems[1])
      [] p.tag = "Seq" -> 1 + SumSize(p.elems, 1)
      [] p.tag = "Or" -> 2 + SumSize(p.elems, 1)

SumSize(ps, i) == IF i > Len(ps) THEN 0 ELSE size(ps[i]) + SumSize(ps, i + 1)

\* C28: an NFA built from a start state, an end state and patterns has
\* 2 + the sum of size(p) states: 4 for a range, 8 for 'a'|'d', 7 for
\* 'a' 'd', 7 for 'a'*, 3 for Always, 4 for Never, 26 for the complex rules.
C28_StatesAdded ==
    Len(hnfa.states) >= 2 =>
        /\ Len(hnfa.states) = 2 + SumSize(last.patterns, 1)
        /\ last.patterns = << a >> => Len(hnfa.states) = 4
        /\ last.patterns = << Or(<< a, d >>) >> => Len(hnfa.states) = 8
        /\ last.patterns = << Seq_(<< a, d >>) >> => Len(hnfa.states) = 7
        /\ last.patterns = << Many(a) >> => Len(hnfa.states) = 7
        /\ last.patterns = << Always >> => Len(hnfa.states) = 3
        /\ last.patterns = << Never >> => Len(hnfa.states) = 4
        /\ last.patterns = ComplexRules => Len(hnfa.states) = 26

C28_Witness ==
    /\ last.patterns = ComplexRules
    /\ Len(hnfa.states) = 26

\* C29: new_pattern(source, p) changes of the states that were there before
\* the call only source, by one epsilon link appended that points at the
\* first state made by the call; it removes no state; the state it returns
\* was made by the call.
C29_NewPatternAppends ==
    [][last'.op = "new_pattern" =>
         LET n == Len(hnfa.states)
         IN /\ Len(hnfa'.states) > n
            /\ \A k \in 0..(n - 1) :
                  IF k = last'.source
                  THEN hnfa'.states[k + 1] =
                          [hnfa.states[k + 1] EXCEPT !.epsilon_links = Append(@, n)]
                  ELSE hnfa'.states[k + 1] = hnfa.states[k + 1]
            /\ n <= last'.id
            /\ last'.id < Len(hnfa'.states)]_vars

\* A second new_pattern from the start state, which already has the epsilon
\* link of the first call, with a pattern that makes links among its own
\* states.
C29_Witness ==
    /\ last.op = "new_pattern"
    /\ last.source = 0
    /\ last.patterns = << Seq_(<< a, b >>), Many(a) >>
    /\ hnfa.states[1].epsilon_links = << 2, 7 >>
    /\ last.id = 11

\* ------------------------------------------------ the rows of DFA::from
\* The place of a cell when the matrix is read row by row, column by column.
Place(row, col) == row * len(unwrap(dfa).alphabet_segmentation) + col

\* The cells that hold the row id.
CellsOf(id) ==
    {rc \in Rows \X Columns : unwrap(dfa).links[rc[1] + 1][rc[2] + 1] = id}

FirstPlace(id) ==
    LET places == {Place(rc[1], rc[2]) : rc \in CellsOf(id)}
    IN CHOOSE p \in places : \A q \in places : p <= q

\* C30: the NFA sets under the rows of a DFA made by DFA::from are non-empty
\* and differ pairwise; every row but row 0 is the value of a cell in a row
\* of smaller index; read row by row and column by column, the row ids
\* appear for the first time in the order 1, 2, 3, ...
C30_RowsInDiscoveryOrder ==
    is_some(dfa) =>
        /\ \A row \in Rows : dfa_eps_ixs[row + 1] # {}
        /\ \A r1 \in Rows : \A r2 \in Rows :
              r1 # r2 => dfa_eps_ixs[r1 + 1] # dfa_eps_ixs[r2 + 1]
        /\ \A id \in Rows \ {0} : \E rc \in CellsOf(id) : rc[1] < id
        /\ \A id \in Rows \ {0} : \A later \in Rows \ {0} :
              id < later => FirstPlace(id) < FirstPlace(later)

\* The eight rows of the complex rules: row 1 is met in row 0, row 4 in
\* row 2 only, and row 7 is met again after its first place.
C30_Witness ==
    /\ ComplexCompiled
    /\ Len(unwrap(dfa).links) = 8
    /\ \A rc \in CellsOf(4) : rc[1] = 2
    /\ Cardinality(CellsOf(7)) > 1
    /\ \E rc \in CellsOf(1) : rc[1] = 0

====
